---- MODULE Spec2Model ----
(***************************************************************************)
(* A model of the editr server core: the Rope (src/src/rope.rs), the file  *)
(* table (src/src/state/file_states), the per-session state                *)
(* (src/src/state/local_state), the outbound table (src/src/state/socket)  *)
(* and the request dispatch (src/src/message.rs).                          *)
(***************************************************************************)
EXTENDS Integers, Sequences, FiniteSets, TLC

\* ------------------------------------------------------------------ bounds
\* Byte values are 1..NumBytes.
NumBytes == 2
\* Longest byte run one rope operation of RopeSpec inserts.
MaxInput == 2
\* Longest content RopeSpec lets the rope grow to.
MaxRopeLen == 4

Bytes == 1..NumBytes

Min(a, b) == IF a < b THEN a ELSE b
Max(a, b) == IF a > b THEN a ELSE b

\* All byte sequences of length 0..n.
SeqsUpTo(n) == UNION {[1..k -> Bytes] : k \in 0..n}

\* -------------------------------------------------------------------- Rope
\* enum Node: a Leaf owns bytes, an Internal caches index (the size of its
\* left child) and size, and owns two children.
Leaf(d) == [leaf |-> TRUE, data |-> d]
Internal(i, s, l, r) == [leaf |-> FALSE, index |-> i, size |-> s, l |-> l, r |-> r]

EmptyLeaf == Leaf(<<>>)

\* Node::size: the leaf's length, or the Internal's cached size.
Size(n) == IF n.leaf THEN Len(n.data) ELSE n.size

\* The tail of the leaf reassembly of insert_at and remove_range: the lone
\* non-empty side, or an Internal over both (the left side wins the test, so
\* two empty sides give the empty right side).
ReassembleKeepEmpty(left, right) ==
  IF Len(left) = 0 THEN Leaf(left)
  ELSE IF Len(right) = 0 THEN Leaf(right)
  ELSE Internal(Len(left), Len(left) + Len(right), Leaf(left), Leaf(right))

\* A reassembly that always builds an Internal over the two sides.
ReassembleBoth(left, right) ==
  Internal(Len(left), Len(left) + Len(right), Leaf(left), Leaf(right))

Reassemble(left, right) ==
  IF Len(left) = 0 THEN Leaf(right)
  ELSE IF Len(right) = 0 THEN Leaf(left)
  ELSE Internal(Len(left), Len(left) + Len(right), Leaf(left), Leaf(right))

\* A node operation yields the node it leaves behind and whether it returned
\* (ok) or panicked. A panic in Vec::split_off happens after the leaf's bytes
\* were moved out of it, so the leaf is left empty.
Done(n) == [ok |-> TRUE, node |-> n]
Panic(n) == [ok |-> FALSE, node |-> n]

RECURSIVE NodeInsertAt(_, _, _)
NodeInsertAt(n, index, input) ==
  IF n.leaf
  THEN IF index > Len(n.data)
       THEN Panic(EmptyLeaf)
       ELSE Done(Reassemble(SubSeq(n.data, 1, index) \o input,
                            SubSeq(n.data, index + 1, Len(n.data))))
  ELSE IF index <= n.index
       THEN LET c == NodeInsertAt(n.l, index, input) IN
            IF c.ok
            THEN Done(Internal(Size(c.node), Size(c.node) + Size(n.r), c.node, n.r))
            ELSE Panic([n EXCEPT !.l = c.node])
       ELSE LET c == NodeInsertAt(n.r, index - n.index, input) IN
            IF c.ok
            THEN Done(Internal(Size(n.l), Size(n.l) + Size(c.node), n.l, c.node))
            ELSE Panic([n EXCEPT !.r = c.node])

\* A truncate that cuts one byte too late.
TruncateLate(d, from) == IF from + 1 < Len(d) THEN SubSeq(d, 1, from + 1) ELSE d

\* Vec::truncate(from): no effect when from is past the end.
Truncate(d, from) == IF from < Len(d) THEN SubSeq(d, 1, from) ELSE d

\* A promotion that does not recompute the index.
PromoteStale(child) ==
  IF child.leaf THEN Leaf(child.data)
  ELSE Internal(0, Size(child.l) + Size(child.r), child.l, child.r)

\* The promotion of remove_range: the surviving child takes the node's place,
\* a leaf with its bytes, an Internal with its children and sizes recomputed
\* from them.
Promote(child) ==
  IF child.leaf THEN Leaf(child.data)
  ELSE Internal(Size(child.l), Size(child.l) + Size(child.r), child.l, child.r)

RECURSIVE NodeRemoveRange(_, _, _)
NodeRemoveRange(n, from, to) ==
  IF n.leaf
  THEN IF to > Len(n.data)
       THEN Panic(EmptyLeaf)
       ELSE Done(Reassemble(Truncate(SubSeq(n.data, 1, to), from),
                            SubSeq(n.data, to + 1, Len(n.data))))
  ELSE LET l_from == Min(n.index, from)
           l_to == Min(n.index, to)
           r_from == Max(n.index, from) - n.index
           r_to == Max(n.index, to) - n.index
           cl == NodeRemoveRange(n.l, l_from, l_to)
       IN IF ~cl.ok THEN Panic([n EXCEPT !.l = cl.node])
          ELSE LET cr == NodeRemoveRange(n.r, r_from, r_to) IN
               IF ~cr.ok THEN Panic([n EXCEPT !.l = cl.node, !.r = cr.node])
               ELSE IF Size(cl.node) = 0 THEN Done(Promote(cr.node))
               ELSE IF Size(cr.node) = 0 THEN Done(Promote(cl.node))
               ELSE Done(Internal(Size(cl.node), Size(cl.node) + Size(cr.node),
                                  cl.node, cr.node))

\* A flatten that appends the left leaf to the right one.
RECURSIVE NodeFlattenSwapped(_)
NodeFlattenSwapped(n) ==
  IF n.leaf THEN n
  ELSE Leaf(NodeFlattenSwapped(n.r).data \o NodeFlattenSwapped(n.l).data)

\* Node::flatten: children first, then the two leaves become one.
RECURSIVE NodeFlatten(_)
NodeFlatten(n) ==
  IF n.leaf THEN n
  ELSE Leaf(NodeFlatten(n.l).data \o NodeFlatten(n.r).data)

\* LeafIter: the leaves in depth-first order, left before right.
RECURSIVE IterateLeaves(_)
IterateLeaves(n) ==
  IF n.leaf THEN <<n.data>> ELSE IterateLeaves(n.l) \o IterateLeaves(n.r)

\* The loop of Rope::collect over the leaves from position k on, counter
\* being the offset of leaf k. A slice whose start is past its end panics.
RECURSIVE CollectLoop(_, _, _, _, _)
CollectLoop(leaves, k, counter, from, to) ==
  IF k > Len(leaves) THEN [ok |-> TRUE, bytes |-> <<>>]
  ELSE LET d == leaves[k]
           len == Len(d)
           array_start == counter
           array_end == counter + len
       IN IF to <= array_start \/ array_end <= from
          THEN CollectLoop(leaves, k + 1, counter + len, from, to)
          ELSE LET slice_from == IF array_start < from THEN from - array_start ELSE 0
                   slice_to == IF to < array_end THEN to - array_start ELSE len
               IN IF slice_from > slice_to
                  THEN [ok |-> FALSE, bytes |-> <<>>]
                  ELSE LET rest == CollectLoop(leaves, k + 1, counter + len, from, to)
                       IN [ok |-> rest.ok,
                           bytes |-> SubSeq(d, slice_from + 1, slice_to) \o rest.bytes]

Collect(n, from, to) == CollectLoop(IterateLeaves(n), 1, 0, from, to)

\* The number of nested Internal nodes whose split point lies strictly inside
\* the range [from, to) that remove_range hands down.
RECURSIVE CrossDepth(_, _, _)
CrossDepth(n, from, to) ==
  IF n.leaf THEN 0
  ELSE (IF from < n.index /\ n.index < to THEN 1 ELSE 0)
       + Max(CrossDepth(n.l, Min(n.index, from), Min(n.index, to)),
             CrossDepth(n.r, Max(n.index, from) - n.index, Max(n.index, to) - n.index))

\* The same edits on a plain sequence.
SeqInsert(s, index, input) ==
  SubSeq(s, 1, index) \o input \o SubSeq(s, index + 1, Len(s))
SeqRemove(s, from, size) ==
  SubSeq(s, 1, from) \o SubSeq(s, from + size + 1, Len(s))

\* ------------------------------------------------------------------- state
VARIABLES
  rope, refSeq, crossed,   \* RopeSpec: one Rope, its reference sequence, split depths crossed
  files,            \* FileStates.container: canonical path -> FileState
  disk,             \* the file system: path -> bytes of the regular file there
  opened_file,      \* LocalState.opened_file of each session
  shared_out,       \* SharedOut: the session ids that have a sink
  sink,             \* what was written to each session's stream, in order
  pc,               \* where each session's worker is
  cur,              \* the request each session is processing
  budget,           \* requests the sessions may still receive
  overflow_checks,  \* whether the build panics on arithmetic overflow
  editSeq,          \* edits applied to ropes so far
  attachedAt,       \* editSeq when the session last attached to a file
  nOpen,            \* successful opens of each session
  snaps,            \* the rope contents seen while a session's flush runs
  held,             \* the locks each session's worker holds, in the order taken
  prog              \* the lock steps each worker has still to take in its request

ropeVars == <<rope, refSeq, crossed>>
lockVars == <<held, prog>>
serverVars == <<files, disk, opened_file, shared_out, sink, pc, cur, budget,
                overflow_checks, editSeq, attachedAt, nOpen, snaps, held, prog>>
vars == <<rope, refSeq, crossed, files, disk, opened_file, shared_out, sink, pc,
          cur, budget, overflow_checks, editSeq, attachedAt, nOpen, snaps, held, prog>>

\* ------------------------------------------------------- server: the data
\* Session workers.
NumSessions == 3
Sessions == 1..NumSessions

\* usize is modelled WordMod values wide; isize is its two's complement view.
WordMod == 16
ToUsize(x) == x % WordMod
AsIsize(x) == IF 2 * x >= WordMod THEN x - WordMod ELSE x

\* Canonical paths: two under canonical_home and two that a name with '..',
\* an absolute name or a symbolic link resolves to outside it.
HomePaths == {"a", "b"}
OutsidePaths == {"x", "y"}
Paths == HomePaths \cup OutsidePaths
None == "-"

\* canonical_path.starts_with(canonical_home)
InHome(p) == p \in HomePaths

MapPut(f, k, v) == [x \in DOMAIN f \cup {k} |-> IF x = k THEN v ELSE f[x]]
MapDel(f, k) == [x \in DOMAIN f \ {k} |-> f[x]]
EmptyMap == [x \in {} |-> 0]

\* FileState::new: the rope and no clients; both locks of std::sync poison
\* when their holder panics.
NewFileState(r) ==
  [rope |-> r, rope_poisoned |-> FALSE, clients |-> EmptyMap, clients_poisoned |-> FALSE]

\* read_to_rope: a new Rope with the file's bytes inserted at 0.
ReadToRope(bytes) == NodeInsertAt(EmptyLeaf, 0, bytes).node

\* The whole content of a rope.
Content(r) == Collect(r, 0, Size(r)).bytes

\* A request in progress: its kind and values (p, q: paths; off, data, len),
\* and what its handler has noted so far: the sessions attached when its edit
\* was applied (at), the edit's number (seq), the length flush read (n),
\* the bytes it collected (buf), and the outcome its rope edit is heading
\* for while it holds the rope's lock (res).
Req(kind, p, q, off, data, len) ==
  [kind |-> kind, p |-> p, q |-> q, off |-> off, data |-> data, len |-> len,
   at |-> {}, seq |-> 0, n |-> 0, buf |-> <<>>, res |-> Done(EmptyLeaf)]
NoReq == Req("", None, None, 0, <<>>, 0)

RespKind(k) ==
  CASE k = "OpenReq" -> "OpenResp"
    [] k = "CloseReq" -> "CloseResp"
    [] k = "WriteReq" -> "WriteResp"
    [] k = "RemoveReq" -> "RemoveResp"
    [] k = "ReadReq" -> "ReadResp"
    [] k = "SaveReq" -> "SaveResp"
    [] k = "CreateReq" -> "CreateResp"
    [] k = "DeleteReq" -> "DeleteResp"
    [] k = "RenameReq" -> "RenameResp"
    [] k = "MoveCursor" -> "MoveCursorResp"
    [] k = "WriteAtCursorReq" -> "WriteAtCursorResp"
    [] k = "RemoveAtCursorReq" -> "RemoveAtCursorResp"
    [] k = "GetCursorsReq" -> "GetCursorsResp"
    [] OTHER -> "Invalid"

\* A message on a stream. Message::process answers a request with the
\* response of its kind, Ok (err = "") or Err(err); the message keeps the
\* request's values beside it.
ReplyTo(req, err) ==
  [kind |-> RespKind(req.kind), err |-> err, p |-> req.p, q |-> req.q,
   off |-> req.off, data |-> req.data, len |-> req.len, seq |-> req.seq]

\* make_add_broadcast / make_del_broadcast: the update envelope of an applied
\* edit, Add{offset, data} or Remove{offset, len}.
UpdateOf(req) ==
  [kind |-> IF req.kind = "WriteReq" THEN "Add" ELSE "Remove", err |-> "",
   p |-> None, q |-> None,
   off |-> req.off, data |-> req.data, len |-> req.len, seq |-> req.seq]

IsUpdate(m) == m.kind \in {"Add", "Remove"}
Updates(q) == SelectSeq(q, IsUpdate)

E_NOFILE == "Thread local storage does not exist"
E_POISON == "poisoned lock"
E_NOTOPEN == "File not open"
E_PATH == "Invalid file path"
E_IO == "io error"
E_BUSY == "File is busy"
E_EXISTS == "File already exists"
E_NOID == "ID not found in clients"

\* The state after text_server::start has bound its listener: empty tables,
\* no worker spawned yet, the files d on disk and b requests to come.
ServerInit(b, d) ==
  /\ files = EmptyMap
  /\ disk = d
  /\ opened_file = [s \in Sessions |-> None]
  /\ shared_out = {}
  /\ sink = [s \in Sessions |-> <<>>]
  /\ pc = [s \in Sessions |-> "new"]
  /\ cur = [s \in Sessions |-> NoReq]
  /\ budget = b
  /\ overflow_checks \in BOOLEAN
  /\ editSeq = 0
  /\ attachedAt = [s \in Sessions |-> 0]
  /\ nOpen = [s \in Sessions |-> 0]
  /\ snaps = [s \in Sessions |-> {}]
  /\ held = [s \in Sessions |-> <<>>]
  /\ prog = [s \in Sessions |-> <<>>]

\* The state the server is in once every worker has started and the sessions
\* of S have each opened p (and nothing else has happened): the file is in the
\* table with its bytes from disk, every cursor at 0, an OpenResp on each
\* opener's stream.
AttachedInit(b, d, p, S) ==
  /\ files = MapPut(EmptyMap, p,
                    [NewFileState(ReadToRope(d[p])) EXCEPT !.clients = [s \in S |-> 0]])
  /\ disk = d
  /\ opened_file = [s \in Sessions |-> IF s \in S THEN p ELSE None]
  /\ shared_out = Sessions
  /\ sink = [s \in Sessions |->
               IF s \in S THEN <<ReplyTo(Req("OpenReq", p, None, 0, <<>>, 0), "")>>
               ELSE <<>>]
  /\ pc = [s \in Sessions |-> "idle"]
  /\ cur = [s \in Sessions |-> NoReq]
  /\ budget = b
  /\ overflow_checks \in BOOLEAN
  /\ editSeq = 0
  /\ attachedAt = [s \in Sessions |-> 0]
  /\ nOpen = [s \in Sessions |-> IF s \in S THEN 1 ELSE 0]
  /\ snaps = [s \in Sessions |-> {}]
  /\ held = [s \in Sessions |-> <<>>]
  /\ prog = [s \in Sessions |-> <<>>]

\* ----------------------------------------------------- server: the steps
\* The worker writes the reply to its own stream and goes back to reading.
ReplyAndIdle(s, m) ==
  /\ sink' = [sink EXCEPT ![s] = Append(@, m)]
  /\ pc' = [pc EXCEPT ![s] = "idle"]
  /\ cur' = [cur EXCEPT ![s] = NoReq]

\* The worker thread unwinds: no reply, no cleanup, its request left as it was.
PanicWith(s, req) ==
  /\ pc' = [pc EXCEPT ![s] = "panicked"]
  /\ cur' = [cur EXCEPT ![s] = req]
  /\ UNCHANGED sink

\* A session's worker starts: LocalState::new, Socket::new, SharedOut::insert.
Connect(s) ==
  /\ pc[s] = "new"
  /\ shared_out' = shared_out \cup {s}
  /\ pc' = [pc EXCEPT ![s] = "idle"]
  /\ UNCHANGED <<files, disk, opened_file, sink, cur, budget, overflow_checks,
                 editSeq, attachedAt, nOpen, snaps>>
  /\ UNCHANGED <<ropeVars, lockVars>>

\* A flush holds the table's read lock from its flatten to its collect, so
\* the table's write lock (open, the eviction of close) waits for it.
TableReadHeld == \E t \in Sessions : pc[t] \in {"save_len", "save_collect"}

\* The rest of LocalState::file_open once no file is open: canonicalize, the
\* home check, FileStates::open under the table's write lock, which loads the
\* file when the table does not hold it and adds the client at offset 0.
OpenMain(s, req) ==
  LET p == req.p IN
  IF p \notin DOMAIN disk
  THEN /\ ReplyAndIdle(s, ReplyTo(req, E_IO))
       /\ UNCHANGED <<files, opened_file, attachedAt, nOpen>>
  ELSE IF ~InHome(p)
  THEN /\ ReplyAndIdle(s, ReplyTo(req, E_PATH))
       /\ UNCHANGED <<files, opened_file, attachedAt, nOpen>>
  ELSE IF p \in DOMAIN files /\ files[p].clients_poisoned
  THEN /\ ReplyAndIdle(s, ReplyTo(req, E_POISON))
       /\ UNCHANGED <<files, opened_file, attachedAt, nOpen>>
  ELSE /\ ~TableReadHeld
       /\ files' = IF p \in DOMAIN files
                   THEN [files EXCEPT ![p].clients = MapPut(@, s, 0)]
                   ELSE MapPut(files, p,
                               [NewFileState(ReadToRope(disk[p]))
                                  EXCEPT !.clients = MapPut(EmptyMap, s, 0)])
       /\ opened_file' = [opened_file EXCEPT ![s] = p]
       /\ attachedAt' = [attachedAt EXCEPT ![s] = editSeq]
       /\ nOpen' = [nOpen EXCEPT ![s] = @ + 1]
       /\ ReplyAndIdle(s, ReplyTo(req, ""))

\* A close that leaves the client in the file's map.
DetachKeep(s, req) ==
  /\ pc' = [pc EXCEPT ![s] = "evict"]
  /\ cur' = [cur EXCEPT ![s] = req]
  /\ UNCHANGED <<files, sink>>

\* The first half of FileStates::close, under the table's read lock:
\* remove_client. A failure ends file_close with opened_file as it was.
Detach(s, req) ==
  LET p == opened_file[s] IN
  IF p \notin DOMAIN files
  THEN /\ ReplyAndIdle(s, ReplyTo(req, E_NOFILE))
       /\ UNCHANGED files
  ELSE IF files[p].clients_poisoned
  THEN /\ ReplyAndIdle(s, ReplyTo(req, E_POISON))
       /\ UNCHANGED files
  ELSE /\ files' = [files EXCEPT ![p].clients = MapDel(@, s)]
       /\ pc' = [pc EXCEPT ![s] = "evict"]
       /\ cur' = [cur EXCEPT ![s] = req]
       /\ UNCHANGED sink

\* OpenReq(name): LocalState::file_open, which closes the open file first.
OpenReq(s, p) ==
  /\ pc[s] = "idle" /\ budget > 0
  /\ budget' = budget - 1
  /\ IF opened_file[s] = None
     THEN OpenMain(s, Req("OpenReq", p, None, 0, <<>>, 0))
     ELSE /\ Detach(s, Req("OpenReq", p, None, 0, <<>>, 0))
          /\ UNCHANGED <<opened_file, attachedAt, nOpen>>
  /\ UNCHANGED <<disk, shared_out, overflow_checks, editSeq, snaps>>
  /\ UNCHANGED <<ropeVars, lockVars>>

\* CloseReq: LocalState::file_close; Ok at once when no file is open.
CloseReq(s) ==
  /\ pc[s] = "idle" /\ budget > 0
  /\ budget' = budget - 1
  /\ IF opened_file[s] = None
     THEN /\ ReplyAndIdle(s, ReplyTo(Req("CloseReq", None, None, 0, <<>>, 0), ""))
          /\ UNCHANGED files
     ELSE Detach(s, Req("CloseReq", None, None, 0, <<>>, 0))
  /\ UNCHANGED <<disk, opened_file, shared_out, overflow_checks, editSeq,
                 attachedAt, nOpen, snaps>>
  /\ UNCHANGED <<ropeVars, lockVars>>

\* An eviction that leaves the entry in the table.
EvictLeave(s) ==
  /\ pc[s] = "evict"
  /\ ~TableReadHeld
  /\ LET p == opened_file[s] IN
     IF p \in DOMAIN files /\ files[p].clients_poisoned
     THEN /\ ReplyAndIdle(s, ReplyTo(cur[s], E_POISON))
          /\ UNCHANGED <<files, opened_file>>
     ELSE /\ files' = files
          /\ opened_file' = [opened_file EXCEPT ![s] = None]
          /\ IF cur[s].kind = "OpenReq"
             THEN pc' = [pc EXCEPT ![s] = "open"] /\ UNCHANGED <<sink, cur>>
             ELSE ReplyAndIdle(s, ReplyTo(cur[s], ""))
  /\ UNCHANGED <<disk, shared_out, budget, overflow_checks, editSeq,
                 attachedAt, nOpen, snaps>>
  /\ UNCHANGED <<ropeVars, lockVars>>

\* The second half of FileStates::close, under the table's write lock: the
\* entry goes when it has no clients; then file_close clears opened_file and
\* file_open goes on to open.
Evict(s) ==
  /\ pc[s] = "evict"
  /\ ~TableReadHeld
  /\ LET p == opened_file[s] IN
     IF p \in DOMAIN files /\ files[p].clients_poisoned
     THEN /\ ReplyAndIdle(s, ReplyTo(cur[s], E_POISON))
          /\ UNCHANGED <<files, opened_file>>
     ELSE /\ files' = IF p \in DOMAIN files /\ DOMAIN files[p].clients = {}
                      THEN MapDel(files, p) ELSE files
          /\ opened_file' = [opened_file EXCEPT ![s] = None]
          /\ IF cur[s].kind = "OpenReq"
             THEN pc' = [pc EXCEPT ![s] = "open"] /\ UNCHANGED <<sink, cur>>
             ELSE ReplyAndIdle(s, ReplyTo(cur[s], ""))
  /\ UNCHANGED <<disk, shared_out, budget, overflow_checks, editSeq,
                 attachedAt, nOpen, snaps>>
  /\ UNCHANGED <<ropeVars, lockVars>>

\* file_open after its file_close returned.
OpenAfterClose(s) ==
  /\ pc[s] = "open"
  /\ OpenMain(s, cur[s])
  /\ UNCHANGED <<disk, shared_out, budget, overflow_checks, editSeq, snaps>>
  /\ UNCHANGED <<ropeVars, lockVars>>

\* The inbound stream ends: client_thread returns Ok and the worker removes
\* its entry from the outbound table. It does not close the open file.
Exit(s) ==
  /\ pc[s] = "idle"
  /\ shared_out' = shared_out \ {s}
  /\ pc' = [pc EXCEPT ![s] = "done"]
  /\ UNCHANGED <<files, disk, opened_file, sink, cur, budget, overflow_checks,
                 editSeq, attachedAt, nOpen, snaps>>
  /\ UNCHANGED <<ropeVars, lockVars>>

\* A message that is not a request arrives: Message::process answers Invalid
\* with the exit flag set, the reply is written, the loop breaks and the
\* worker removes its outbound entry and ends.
Terminal(s) ==
  /\ pc[s] = "idle"
  /\ sink' = [sink EXCEPT ![s] = Append(@, [ReplyTo(NoReq, "") EXCEPT !.kind = "Invalid"])]
  /\ shared_out' = shared_out \ {s}
  /\ pc' = [pc EXCEPT ![s] = "done"]
  /\ UNCHANGED <<files, disk, opened_file, cur, budget, overflow_checks,
                 editSeq, attachedAt, nOpen, snaps>>
  /\ UNCHANGED <<ropeVars, lockVars>>

\* The loop ends with an error (the inbound bytes do not parse, a socket read
\* or write fails): client_thread returns Err, the unwrap on its result
\* panics and the removal of the outbound entry that follows it is not run.
LoopError(s) ==
  /\ pc[s] = "idle"
  /\ PanicWith(s, cur[s])
  /\ UNCHANGED <<files, disk, opened_file, shared_out, budget, overflow_checks,
                 editSeq, attachedAt, nOpen, snaps>>
  /\ UNCHANGED <<ropeVars, lockVars>>
\* Where a worker is while FileStates::flush runs.
SavePcs == {"save_len", "save_collect", "save_create", "save_write"}

\* A rope of file p changed to r: every flush of p that is running has seen
\* one more content.
NoteEdit(p, r) ==
  snaps' = [t \in Sessions |->
              IF pc[t] \in SavePcs /\ opened_file[t] = p
              THEN snaps[t] \cup {Content(r)} ELSE snaps[t]]

\* An absolute edit applied: it is numbered, the sessions attached at this
\* moment are noted, and file_write / file_remove goes on to broadcast.
Applied(s, req, p) ==
  /\ editSeq' = editSeq + 1
  /\ cur' = [cur EXCEPT ![s] = [req EXCEPT !.at = DOMAIN files[p].clients,
                                           !.seq = editSeq + 1]]
  /\ pc' = [pc EXCEPT ![s] = "bcast"]
  /\ UNCHANGED sink

\* An edit whose write in range returns without touching the rope.
EditRopeSkip(req, n) ==
  IF req.kind = "WriteReq"
  THEN IF NodeInsertAt(n, req.off, req.data).ok THEN Done(n)
       ELSE NodeInsertAt(n, req.off, req.data)
  ELSE NodeRemoveRange(n, req.off, req.off + req.len)

\* FileStates::write and FileStates::remove on the file's rope: insert_at
\* (offset, data), or the removal of [offset, offset + len).
EditRope(req, n) ==
  IF req.kind = "WriteReq" THEN NodeInsertAt(n, req.off, req.data)
  ELSE NodeRemoveRange(n, req.off, req.off + req.len)

\* The first half of LocalState::file_write and file_remove: get_opened, then
\* the edit of the rope under its write lock. An out-of-range edit panics
\* inside the rope.
ApplyEdit(s, req) ==
  LET p == opened_file[s]
      r(n) == EditRope(req, n)
      resp(e) == ReplyTo(req, e)
  IN
  IF p = None
  THEN ReplyAndIdle(s, resp(E_NOTOPEN)) /\ UNCHANGED <<files, editSeq, snaps>>
  ELSE IF p \notin DOMAIN files
  THEN ReplyAndIdle(s, resp(E_NOFILE)) /\ UNCHANGED <<files, editSeq, snaps>>
  ELSE IF files[p].rope_poisoned
  THEN ReplyAndIdle(s, resp(E_POISON)) /\ UNCHANGED <<files, editSeq, snaps>>
  ELSE IF r(files[p].rope).ok
  THEN /\ files' = [files EXCEPT ![p].rope = r(files[p].rope).node]
       /\ Applied(s, req, p)
       /\ NoteEdit(p, r(files[p].rope).node)
  ELSE /\ files' = [files EXCEPT ![p].rope = r(files[p].rope).node,
                                 ![p].rope_poisoned = TRUE]
       /\ PanicWith(s, req)
       /\ UNCHANGED <<editSeq, snaps>>

\* WriteReq{offset, data}.
WriteReq(s, off, data) ==
  /\ pc[s] = "idle" /\ budget > 0
  /\ budget' = budget - 1
  /\ ApplyEdit(s, Req("WriteReq", None, None, off, data, 0))
  /\ UNCHANGED <<disk, opened_file, shared_out, overflow_checks, attachedAt, nOpen>>
  /\ UNCHANGED <<ropeVars, lockVars>>

\* RemoveReq{offset, len}.
RemoveReq(s, off, len) ==
  /\ pc[s] = "idle" /\ budget > 0
  /\ budget' = budget - 1
  /\ ApplyEdit(s, Req("RemoveReq", None, None, off, <<>>, len))
  /\ UNCHANGED <<disk, opened_file, shared_out, overflow_checks, attachedAt, nOpen>>
  /\ UNCHANGED <<ropeVars, lockVars>>

\* What broadcast_neighbours writes and returns with the clients map c: the
\* loop visits the keys in the HashMap's order and its first failed write (a
\* client without a sink) ends it, so any of the clients that have a sink may
\* have been served before.
BroadcastOutcomes(s, c) ==
  LET targets == DOMAIN c \ {s} IN
  IF targets \subseteq shared_out
  THEN {[got |-> targets, err |-> ""]}
  ELSE {[got |-> g, err |-> E_NOFILE] : g \in SUBSET (targets \cap shared_out)}

\* The second half of file_write and file_remove: broadcast_neighbours under
\* the clients lock, then the reply.
Broadcast(s) ==
  /\ pc[s] = "bcast"
  /\ LET p == opened_file[s]
         req == cur[s]
         resp(e) == ReplyTo(req, e)
     IN
     IF p \notin DOMAIN files
     THEN ReplyAndIdle(s, resp(E_NOFILE))
     ELSE IF files[p].clients_poisoned
     THEN ReplyAndIdle(s, resp(E_POISON))
     ELSE \E o \in BroadcastOutcomes(s, files[p].clients) :
            /\ sink' = [t \in Sessions |->
                          IF t = s THEN Append(sink[t], resp(o.err))
                          ELSE IF t \in o.got THEN Append(sink[t], UpdateOf(req))
                          ELSE sink[t]]
            /\ pc' = [pc EXCEPT ![s] = "idle"]
            /\ cur' = [cur EXCEPT ![s] = NoReq]
  /\ UNCHANGED <<files, disk, opened_file, shared_out, budget, overflow_checks,
                 editSeq, attachedAt, nOpen, snaps>>
  /\ UNCHANGED <<ropeVars, lockVars>>

\* The lookups every cursor request starts with: get_opened, file_op,
\* clients_op. "" when the clients map is reached.
CursorPrelude(s) ==
  LET p == opened_file[s] IN
  IF p = None THEN E_NOTOPEN
  ELSE IF p \notin DOMAIN files THEN E_NOFILE
  ELSE IF files[p].clients_poisoned THEN E_POISON
  ELSE ""

\* FileState::move_cursor: the sum as isize cast back to usize, no clamp; an
\* id that is not attached is left alone.
MovedCursors(c, s, delta) ==
  IF s \in DOMAIN c THEN [c EXCEPT ![s] = ToUsize(AsIsize(c[s]) + delta)] ELSE c

\* MoveCursor(delta).
MoveCursor(s, delta) ==
  /\ pc[s] = "idle" /\ budget > 0
  /\ budget' = budget - 1
  /\ LET p == opened_file[s]
         e == CursorPrelude(s)
     IN /\ files' = IF e = "" THEN [files EXCEPT ![p].clients = MovedCursors(@, s, delta)]
                    ELSE files
        /\ ReplyAndIdle(s, ReplyTo(Req("MoveCursor", None, None, delta, <<>>, 0), e))
  /\ UNCHANGED <<disk, opened_file, shared_out, overflow_checks, editSeq,
                 attachedAt, nOpen, snaps>>
  /\ UNCHANGED <<ropeVars, lockVars>>

\* The cursor shift of write_at_cursor: every offset at or after the insert
\* moves by the length.
ShiftAfterWrite(c, found_value, n) ==
  [t \in DOMAIN c |-> IF c[t] >= found_value THEN ToUsize(AsIsize(c[t]) + n) ELSE c[t]]

\* The cursor shift of remove_at_cursor: every offset at or after the cut moves
\* back by len, but not below the cut.
ShiftAfterRemove(c, found_value, len) ==
  [t \in DOMAIN c |->
     IF c[t] >= found_value
     THEN IF AsIsize(c[t]) - len < AsIsize(found_value)
          THEN found_value ELSE ToUsize(AsIsize(c[t]) - len)
     ELSE c[t]]

\* The rope edit of write_at_cursor and remove_at_cursor at found_value; the
\* end of the removed range wraps in a build without overflow checks.
CursorRope(req, n, found_value) ==
  IF req.kind = "WriteAtCursorReq" THEN NodeInsertAt(n, found_value, req.data)
  ELSE NodeRemoveRange(n, found_value, ToUsize(found_value + req.len))

\* found_value + len of remove_at_cursor past the word: a build with overflow
\* checks panics there, before the rope is touched.
CursorOverflow(req, found_value) ==
  /\ req.kind = "RemoveAtCursorReq"
  /\ found_value + req.len >= WordMod
  /\ overflow_checks

CursorShift(req, c, found_value) ==
  IF req.kind = "WriteAtCursorReq" THEN ShiftAfterWrite(c, found_value, Len(req.data))
  ELSE ShiftAfterRemove(c, found_value, req.len)

\* FileState::write_at_cursor and remove_at_cursor under the clients lock: the
\* lookup, the rope edit, the shift. A panic poisons the clients lock, and the
\* rope's lock too when it happens inside the rope. No update is broadcast.
CursorEdit(s, req) ==
  LET p == opened_file[s]
      e == CursorPrelude(s)
      r(n, o) == CursorRope(req, n, o)
      sh(c, o) == CursorShift(req, c, o)
      resp(err, o) == ReplyTo([req EXCEPT !.off = o], err)
  IN
  IF e # ""
  THEN ReplyAndIdle(s, resp(e, 0)) /\ UNCHANGED <<files, editSeq, snaps>>
  ELSE IF s \notin DOMAIN files[p].clients
  THEN ReplyAndIdle(s, resp(E_NOID, 0)) /\ UNCHANGED <<files, editSeq, snaps>>
  ELSE LET found_value == files[p].clients[s] IN
       IF CursorOverflow(req, found_value)
       THEN /\ files' = [files EXCEPT ![p].clients_poisoned = TRUE]
            /\ PanicWith(s, [req EXCEPT !.off = found_value])
            /\ UNCHANGED <<editSeq, snaps>>
       ELSE IF files[p].rope_poisoned
       THEN ReplyAndIdle(s, resp(E_POISON, found_value))
            /\ UNCHANGED <<files, editSeq, snaps>>
       ELSE LET res == r(files[p].rope, found_value) IN
            IF res.ok
            THEN /\ files' = [files EXCEPT ![p].rope = res.node,
                                           ![p].clients = sh(@, found_value)]
                 /\ editSeq' = editSeq + 1
                 /\ NoteEdit(p, res.node)
                 /\ ReplyAndIdle(s, resp("", found_value))
            ELSE /\ files' = [files EXCEPT ![p].rope = res.node,
                                           ![p].rope_poisoned = TRUE,
                                           ![p].clients_poisoned = TRUE]
                 /\ PanicWith(s, [req EXCEPT !.off = found_value])
                 /\ UNCHANGED <<editSeq, snaps>>

\* WriteAtCursorReq{data}.
WriteAtCursorReq(s, data) ==
  /\ pc[s] = "idle" /\ budget > 0
  /\ budget' = budget - 1
  /\ CursorEdit(s, Req("WriteAtCursorReq", None, None, 0, data, 0))
  /\ UNCHANGED <<disk, opened_file, shared_out, overflow_checks, attachedAt, nOpen>>
  /\ UNCHANGED <<ropeVars, lockVars>>

\* RemoveAtCursorReq{len}.
RemoveAtCursorReq(s, len) ==
  /\ pc[s] = "idle" /\ budget > 0
  /\ budget' = budget - 1
  /\ CursorEdit(s, Req("RemoveAtCursorReq", None, None, 0, <<>>, len))
  /\ UNCHANGED <<disk, opened_file, shared_out, overflow_checks, attachedAt, nOpen>>
  /\ UNCHANGED <<ropeVars, lockVars>>

\* SaveReq: LocalState::file_save, FileStates::flush. Inside file_op the rope
\* is flattened (write lock), its length read (read lock) and [0, length)
\* collected (read lock): three lockings of the rope, the first one here.
SaveReq(s) ==
  /\ pc[s] = "idle" /\ budget > 0
  /\ budget' = budget - 1
  /\ LET p == opened_file[s]
         req == Req("SaveReq", None, None, 0, <<>>, 0)
     IN
     IF p = None
     THEN ReplyAndIdle(s, ReplyTo(req, E_NOTOPEN)) /\ UNCHANGED <<files, snaps>>
     ELSE IF p \notin DOMAIN files
     THEN ReplyAndIdle(s, ReplyTo(req, E_NOFILE)) /\ UNCHANGED <<files, snaps>>
     ELSE IF files[p].rope_poisoned
     THEN ReplyAndIdle(s, ReplyTo(req, E_POISON)) /\ UNCHANGED <<files, snaps>>
     ELSE /\ files' = [files EXCEPT ![p].rope = NodeFlatten(@)]
          /\ snaps' = [snaps EXCEPT ![s] = {Content(files[p].rope)}]
          /\ pc' = [pc EXCEPT ![s] = "save_len"]
          /\ cur' = [cur EXCEPT ![s] = req]
          /\ UNCHANGED sink
  /\ UNCHANGED <<disk, opened_file, shared_out, overflow_checks, editSeq,
                 attachedAt, nOpen>>
  /\ UNCHANGED <<ropeVars, lockVars>>

\* flush: file.len(), the argument of collect.
SaveLen(s) ==
  /\ pc[s] = "save_len"
  /\ LET p == opened_file[s] IN
     IF files[p].rope_poisoned
     THEN ReplyAndIdle(s, ReplyTo(cur[s], E_POISON))
     ELSE /\ cur' = [cur EXCEPT ![s].n = Size(files[p].rope)]
          /\ pc' = [pc EXCEPT ![s] = "save_collect"]
          /\ UNCHANGED sink
  /\ UNCHANGED <<files, disk, opened_file, shared_out, budget, overflow_checks,
                 editSeq, attachedAt, nOpen, snaps>>
  /\ UNCHANGED <<ropeVars, lockVars>>

\* flush: file.collect(0, len), after which file_op returns.
SaveCollect(s) ==
  /\ pc[s] = "save_collect"
  /\ LET p == opened_file[s] IN
     IF files[p].rope_poisoned
     THEN ReplyAndIdle(s, ReplyTo(cur[s], E_POISON))
     ELSE /\ cur' = [cur EXCEPT ![s].buf = Collect(files[p].rope, 0, cur[s].n).bytes]
          /\ pc' = [pc EXCEPT ![s] = "save_create"]
          /\ UNCHANGED sink
  /\ UNCHANGED <<files, disk, opened_file, shared_out, budget, overflow_checks,
                 editSeq, attachedAt, nOpen, snaps>>
  /\ UNCHANGED <<ropeVars, lockVars>>

\* flush: File::create, which creates the file or truncates it.
SaveCreate(s) ==
  /\ pc[s] = "save_create"
  /\ disk' = MapPut(disk, opened_file[s], <<>>)
  /\ pc' = [pc EXCEPT ![s] = "save_write"]
  /\ UNCHANGED <<files, opened_file, shared_out, sink, cur, budget, overflow_checks,
                 editSeq, attachedAt, nOpen, snaps>>
  /\ UNCHANGED <<ropeVars, lockVars>>

\* flush: write_all of the collected bytes at the start of the created file
\* (to a file that was unlinked meanwhile the write is lost), then SaveResp.
SaveWrite(s) ==
  /\ pc[s] = "save_write"
  /\ LET p == opened_file[s] IN
     disk' = IF p \in DOMAIN disk
             THEN [disk EXCEPT ![p] = cur[s].buf
                                      \o SubSeq(@, Len(cur[s].buf) + 1, Len(@))]
             ELSE disk
  /\ ReplyAndIdle(s, ReplyTo([cur[s] EXCEPT !.data = cur[s].buf], ""))
  /\ UNCHANGED <<files, opened_file, shared_out, budget, overflow_checks,
                 editSeq, attachedAt, nOpen, snaps>>
  /\ UNCHANGED <<ropeVars, lockVars>>

\* CreateReq(name): LocalState::file_create, create_new at the name joined to
\* canonical_home; the joined path is not checked against the home.
CreateReq(s, p) ==
  /\ pc[s] = "idle" /\ budget > 0
  /\ budget' = budget - 1
  /\ LET req == Req("CreateReq", p, None, 0, <<>>, 0) IN
     IF p \in DOMAIN disk
     THEN ReplyAndIdle(s, ReplyTo(req, E_IO)) /\ UNCHANGED disk
     ELSE ReplyAndIdle(s, ReplyTo(req, "")) /\ disk' = MapPut(disk, p, <<>>)
  /\ UNCHANGED <<files, opened_file, shared_out, overflow_checks, editSeq,
                 attachedAt, nOpen, snaps>>
  /\ UNCHANGED <<ropeVars, lockVars>>

\* DeleteReq(name): LocalState::file_delete up to its test that no session
\* has the canonical path open; the path is not checked against the home.
DeleteReq(s, p) ==
  /\ pc[s] = "idle" /\ budget > 0
  /\ budget' = budget - 1
  /\ LET req == Req("DeleteReq", p, None, 0, <<>>, 0) IN
     IF p \notin DOMAIN disk THEN ReplyAndIdle(s, ReplyTo(req, E_IO))
     ELSE IF p \in DOMAIN files THEN ReplyAndIdle(s, ReplyTo(req, E_BUSY))
     ELSE /\ pc' = [pc EXCEPT ![s] = "delete_fs"]
          /\ cur' = [cur EXCEPT ![s] = req]
          /\ UNCHANGED sink
  /\ UNCHANGED <<files, disk, opened_file, shared_out, overflow_checks, editSeq,
                 attachedAt, nOpen, snaps>>
  /\ UNCHANGED <<ropeVars, lockVars>>

\* file_delete: fs::remove_file.
DeleteFs(s) ==
  /\ pc[s] = "delete_fs"
  /\ LET p == cur[s].p IN
     IF p \notin DOMAIN disk
     THEN ReplyAndIdle(s, ReplyTo(cur[s], E_IO)) /\ UNCHANGED disk
     ELSE ReplyAndIdle(s, ReplyTo(cur[s], "")) /\ disk' = MapDel(disk, p)
  /\ UNCHANGED <<files, opened_file, shared_out, budget, overflow_checks, editSeq,
                 attachedAt, nOpen, snaps>>
  /\ UNCHANGED <<ropeVars, lockVars>>

\* RenameReq{from, to}: LocalState::file_rename up to its tests that the
\* target does not exist and that no session has the source open; neither
\* path is checked against the home.
RenameReq(s, from, to) ==
  /\ pc[s] = "idle" /\ budget > 0
  /\ budget' = budget - 1
  /\ LET req == Req("RenameReq", from, to, 0, <<>>, 0) IN
     IF from \notin DOMAIN disk THEN ReplyAndIdle(s, ReplyTo(req, E_IO))
     ELSE IF to \in DOMAIN disk THEN ReplyAndIdle(s, ReplyTo(req, E_EXISTS))
     ELSE IF from \in DOMAIN files THEN ReplyAndIdle(s, ReplyTo(req, E_BUSY))
     ELSE /\ pc' = [pc EXCEPT ![s] = "rename_fs"]
          /\ cur' = [cur EXCEPT ![s] = req]
          /\ UNCHANGED sink
  /\ UNCHANGED <<files, disk, opened_file, shared_out, overflow_checks, editSeq,
                 attachedAt, nOpen, snaps>>
  /\ UNCHANGED <<ropeVars, lockVars>>

\* file_rename: fs::rename, which replaces a target that exists by now.
RenameFs(s) ==
  /\ pc[s] = "rename_fs"
  /\ LET from == cur[s].p
         to == cur[s].q
     IN
     IF from \notin DOMAIN disk
     THEN ReplyAndIdle(s, ReplyTo(cur[s], E_IO)) /\ UNCHANGED disk
     ELSE /\ ReplyAndIdle(s, ReplyTo(cur[s], ""))
          /\ disk' = MapPut(MapDel(disk, from), to, disk[from])
  /\ UNCHANGED <<files, opened_file, shared_out, budget, overflow_checks, editSeq,
                 attachedAt, nOpen, snaps>>
  /\ UNCHANGED <<ropeVars, lockVars>>

\* ------------------------------------------------------- server: the locks
\* The locks of the server: the RwLock of FileStates.container, the Mutex of
\* a FileState's clients, the RwLock of a Rope's root, the RwLock of
\* SharedOut's map and the Mutex of a ThreadOut's writer.
Lock(kind, p, t) == [kind |-> kind, path |-> p, sess |-> t]
TableLock == Lock("table", None, 0)
ClientsLock(p) == Lock("clients", p, 0)
RopeLock(p) == Lock("rope", p, 0)
OutLock == Lock("out", None, 0)
SinkLock(t) == Lock("sink", None, t)

\* A lock taken: shared ("r", RwLock::read) or exclusive ("w", RwLock::write
\* and Mutex::lock).
Taken(l, m) == [lock |-> l, mode |-> m]

\* The sessions that hold lock l in mode m.
Holders(l, m) ==
  {s \in Sessions : \E i \in 1..Len(held[s]) : held[s][i] = Taken(l, m)}

\* A reader that ignores the writer.
CanLockUnguarded(l, m) ==
  IF m = "w" THEN Holders(l, "w") \cup Holders(l, "r") = {} ELSE TRUE

\* Whether lock l can be taken in mode m now: exclusively when nobody holds
\* it, shared when no writer holds it.
CanLock(l, m) ==
  IF m = "w" THEN Holders(l, "w") \cup Holders(l, "r") = {}
  ELSE Holders(l, "w") = {}

\* The locks a session holds without the one it took last.
Released(s) == [held EXCEPT ![s] = SubSeq(@, 1, Len(@) - 1)]

\* ------------------------------------- server: edits and reads, lock by lock
\* Node::insert_at on its way: the leaf it reached has had its bytes moved
\* out (replace with Vec::new()), the sizes above it are the old ones.
RECURSIVE NodeInsertMid(_, _)
NodeInsertMid(n, index) ==
  IF n.leaf THEN EmptyLeaf
  ELSE IF index <= n.index
       THEN [n EXCEPT !.l = NodeInsertMid(n.l, index)]
       ELSE [n EXCEPT !.r = NodeInsertMid(n.r, index - n.index)]

\* Node::remove_range on its way: a leaf has had its bytes moved out; an
\* Internal has removed from its left child and not yet from its right one.
NodeRemoveMid(n, from, to) ==
  IF n.leaf THEN EmptyLeaf
  ELSE [n EXCEPT !.l = NodeRemoveRange(n.l, Min(n.index, from), Min(n.index, to)).node]

\* The rope while the edit of req is under way.
EditMid(req, n) ==
  IF req.kind = "WriteReq" THEN NodeInsertMid(n, req.off)
  ELSE NodeRemoveMid(n, req.off, req.off + req.len)

\* The same edit on the reference sequence.
EditRef(req, seq) ==
  IF req.kind = "WriteReq" THEN SeqInsert(seq, req.off, req.data)
  ELSE SeqRemove(seq, req.off, req.len)

\* WriteReq / RemoveReq up to the middle of the rope edit: get_opened, the
\* file's entry, Rope::insert_at or Rope::remove taking the root's write lock
\* and starting on the tree.
EditLock(s, req) ==
  /\ pc[s] = "idle" /\ budget > 0
  /\ budget' = budget - 1
  /\ LET p == opened_file[s] IN
     IF p = None
     THEN ReplyAndIdle(s, ReplyTo(req, E_NOTOPEN)) /\ UNCHANGED <<files, held>>
     ELSE IF p \notin DOMAIN files
     THEN ReplyAndIdle(s, ReplyTo(req, E_NOFILE)) /\ UNCHANGED <<files, held>>
     ELSE /\ CanLock(RopeLock(p), "w")
          /\ IF files[p].rope_poisoned
             THEN ReplyAndIdle(s, ReplyTo(req, E_POISON)) /\ UNCHANGED <<files, held>>
             ELSE /\ held' = [held EXCEPT ![s] = Append(@, Taken(RopeLock(p), "w"))]
                  /\ files' = [files EXCEPT ![p].rope = EditMid(req, @)]
                  /\ cur' = [cur EXCEPT ![s] = [req EXCEPT !.res = EditRope(req, files[p].rope)]]
                  /\ pc' = [pc EXCEPT ![s] = "rope_w"]
                  /\ UNCHANGED sink
  /\ UNCHANGED <<disk, opened_file, shared_out, overflow_checks, editSeq,
                 attachedAt, nOpen, snaps, prog>>
  /\ UNCHANGED ropeVars

\* The rest of the rope edit: the tree is left as the edit leaves it and the
\* write guard is dropped, by the return (file_write / file_remove go on to
\* broadcast) or by the unwinding of a panic, which poisons the lock.
EditUnlock(s) ==
  /\ pc[s] = "rope_w"
  /\ LET p == opened_file[s]
         req == cur[s]
     IN
     /\ held' = Released(s)
     /\ IF req.res.ok
        THEN /\ files' = [files EXCEPT ![p].rope = req.res.node]
             /\ refSeq' = EditRef(req, refSeq)
             /\ Applied(s, req, p)
             /\ NoteEdit(p, req.res.node)
        ELSE /\ files' = [files EXCEPT ![p].rope = req.res.node,
                                       ![p].rope_poisoned = TRUE]
             /\ PanicWith(s, req)
             /\ UNCHANGED <<refSeq, editSeq, snaps>>
  /\ UNCHANGED <<rope, crossed, disk, opened_file, shared_out, budget,
                 overflow_checks, attachedAt, nOpen, prog>>

\* ReadReq{offset, len} up to Rope::collect holding the root's read lock.
\* Message::process adds offset and len first: past the word the sum panics
\* in a build with overflow checks and wraps in one without.
ReadLock(s, off, len) ==
  /\ pc[s] = "idle" /\ budget > 0
  /\ budget' = budget - 1
  /\ LET p == opened_file[s]
         req == Req("ReadReq", None, None, off, <<>>, len)
     IN
     IF off + len >= WordMod /\ overflow_checks
     THEN PanicWith(s, req) /\ UNCHANGED held
     ELSE IF p = None
     THEN ReplyAndIdle(s, ReplyTo(req, E_NOTOPEN)) /\ UNCHANGED held
     ELSE IF p \notin DOMAIN files
     THEN ReplyAndIdle(s, ReplyTo(req, E_NOFILE)) /\ UNCHANGED held
     ELSE /\ CanLock(RopeLock(p), "r")
          /\ IF files[p].rope_poisoned
             THEN ReplyAndIdle(s, ReplyTo(req, E_POISON)) /\ UNCHANGED held
             ELSE /\ held' = [held EXCEPT ![s] = Append(@, Taken(RopeLock(p), "r"))]
                  /\ cur' = [cur EXCEPT ![s] = req]
                  /\ pc' = [pc EXCEPT ![s] = "rope_r"]
                  /\ UNCHANGED sink
  /\ UNCHANGED <<files, disk, opened_file, shared_out, overflow_checks, editSeq,
                 attachedAt, nOpen, snaps, prog>>
  /\ UNCHANGED ropeVars

\* Rope::collect(offset, offset + len) over the leaves as they are, the read
\* guard dropped, ReadResp with the bytes; a slice that panics ends the worker.
ReadUnlock(s) ==
  /\ pc[s] = "rope_r"
  /\ LET p == opened_file[s]
         req == cur[s]
         got == Collect(files[p].rope, req.off, ToUsize(req.off + req.len))
     IN
     /\ held' = Released(s)
     /\ IF got.ok
        THEN ReplyAndIdle(s, ReplyTo([req EXCEPT !.data = got.bytes], ""))
        ELSE PanicWith(s, req)
  /\ UNCHANGED <<files, disk, opened_file, shared_out, budget, overflow_checks,
                 editSeq, attachedAt, nOpen, snaps, prog>>
  /\ UNCHANGED ropeVars

\* --------------------------------------------- server: the handlers' locking
\* The steps of a handler that touch a lock: taking lock l in mode m, dropping
\* the guard taken last (guards drop in the reverse order of their taking),
\* the end of the worker, and the loop over a file's clients.
Acq(l, m) == [op |-> "acq", lock |-> l, mode |-> m]
Rel == [op |-> "rel", lock |-> TableLock, mode |-> "w"]
Halt == [op |-> "halt", lock |-> TableLock, mode |-> "w"]
Each == [op |-> "each", lock |-> TableLock, mode |-> "w"]

\* A write that keeps the map's read guard when it returns.
SendLocksKeep(t) == <<Acq(OutLock, "r"), Acq(SinkLock(t), "w"), Rel>>

\* Socket::write to session t: SharedOut::write holds the map's read lock
\* around ThreadOut::write, which locks the writer.
SendLocks(t) == <<Acq(OutLock, "r"), Acq(SinkLock(t), "w"), Rel, Rel>>

\* SharedOut::insert (Socket::new) and SharedOut::remove (the worker's end).
ConnectLocks == <<Acq(OutLock, "w"), Rel>>
ExitLocks == <<Acq(OutLock, "w"), Rel, Halt>>

\* FileStates::close: remove_client under the table's read lock, then
\* no_clients under its write lock.
CloseLocks(p) ==
  <<Acq(TableLock, "r"), Acq(ClientsLock(p), "w"), Rel, Rel,
    Acq(TableLock, "w"), Acq(ClientsLock(p), "w"), Rel, Rel>>

\* FileStates::open under the table's write lock: read_to_rope's insert_at
\* (when the file is loaded), then add_client.
OpenLocks(p) ==
  <<Acq(TableLock, "w"), Acq(RopeLock(p), "w"), Rel, Acq(ClientsLock(p), "w"), Rel, Rel>>

\* FileStates::read: collect under the table's read lock.
ReadLocks(p) == <<Acq(TableLock, "r"), Acq(RopeLock(p), "r"), Rel, Rel>>

\* One Socket::write per recipient, in the given order.
RECURSIVE SendAll(_)
SendAll(order) ==
  IF order = <<>> THEN <<>> ELSE SendLocks(Head(order)) \o SendAll(Tail(order))

\* broadcast_neighbours: for_each_client holds the table's read lock and the
\* clients lock around the loop over the file's clients.
BroadcastLocks(p) == <<Acq(TableLock, "r"), Acq(ClientsLock(p), "w"), Each, Rel, Rel>>

\* file_write / file_remove: the rope edit under the table's read lock, then
\* the broadcast.
EditLocks(p) ==
  <<Acq(TableLock, "r"), Acq(RopeLock(p), "w"), Rel, Rel>> \o BroadcastLocks(p)

\* FileStates::flush: flatten, len and collect under the table's read lock.
SaveLocks(p) ==
  <<Acq(TableLock, "r"), Acq(RopeLock(p), "w"), Rel, Acq(RopeLock(p), "r"), Rel,
    Acq(RopeLock(p), "r"), Rel, Rel>>

\* move_cursor and get_cursors: clients_op under the table's read lock.
CursorLocks(p) == <<Acq(TableLock, "r"), Acq(ClientsLock(p), "w"), Rel, Rel>>

\* A cursor edit that takes the rope's lock before the clients lock.
CursorEditLocksRopeFirst(p) ==
  <<Acq(TableLock, "r"), Acq(RopeLock(p), "w"), Acq(ClientsLock(p), "w"), Rel, Rel, Rel>>

\* write_at_cursor / remove_at_cursor: the rope edit inside clients_op.
CursorEditLocks(p) ==
  <<Acq(TableLock, "r"), Acq(ClientsLock(p), "w"), Acq(RopeLock(p), "w"), Rel, Rel, Rel>>

\* file_delete / file_rename: contains_file.
BusyLocks == <<Acq(TableLock, "r"), Rel>>

\* The orders in which a HashMap may yield the sessions of S.
RECURSIVE Orders(_)
Orders(S) ==
  IF S = {} THEN {<<>>}
  ELSE UNION {{<<t>> \o o : o \in Orders(S \ {t})} : t \in S}

\* The files the workers open.
LockPaths == {"a"}

\* The requests session s may be sent, as [steps, file]: the lock steps of the
\* handler followed by those of the reply, and the file the session has open
\* when the handler returns Ok.
Programs(s) ==
  LET p == opened_file[s]
      reply == SendLocks(s)
      closing == IF p = None THEN <<>> ELSE CloseLocks(p)
      onFile == IF p = None THEN {}
                ELSE {ReadLocks(p), EditLocks(p), SaveLocks(p), CursorLocks(p),
                      CursorEditLocks(p)}
  IN {[steps |-> closing \o OpenLocks(q) \o reply, file |-> q] : q \in LockPaths}
     \cup {[steps |-> closing \o reply, file |-> None]}
     \cup {[steps |-> BusyLocks \o reply, file |-> p]}
     \cup {[steps |-> st \o reply, file |-> p] : st \in onFile}

\* A worker starts: Socket::new inserts its sink.
LockConnect(s) ==
  /\ pc[s] = "new"
  /\ pc' = [pc EXCEPT ![s] = "locks"]
  /\ prog' = [prog EXCEPT ![s] = ConnectLocks]
  /\ UNCHANGED <<held, files, disk, opened_file, shared_out, sink, cur, budget,
                 overflow_checks, editSeq, attachedAt, nOpen, snaps>>
  /\ UNCHANGED ropeVars

\* A request arrives: its handler's lock steps lie ahead, and the file the
\* session will have open when the handler has returned Ok is noted.
LockStart(s) ==
  /\ pc[s] = "idle"
  /\ \E pr \in Programs(s) :
       /\ prog' = [prog EXCEPT ![s] = pr.steps]
       /\ cur' = [cur EXCEPT ![s].p = pr.file]
  /\ pc' = [pc EXCEPT ![s] = "locks"]
  /\ UNCHANGED <<held, files, disk, opened_file, shared_out, sink, budget,
                 overflow_checks, editSeq, attachedAt, nOpen, snaps>>
  /\ UNCHANGED ropeVars

\* The inbound stream ends: the worker removes its sink and ends.
LockExit(s) ==
  /\ pc[s] = "idle"
  /\ pc' = [pc EXCEPT ![s] = "locks"]
  /\ prog' = [prog EXCEPT ![s] = ExitLocks]
  /\ UNCHANGED <<held, files, disk, opened_file, shared_out, sink, cur, budget,
                 overflow_checks, editSeq, attachedAt, nOpen, snaps>>
  /\ UNCHANGED ropeVars

\* Whether the worker's next lock step can be taken now.
CanStep(s) ==
  /\ pc[s] = "locks"
  /\ Head(prog[s]).op = "acq" => CanLock(Head(prog[s]).lock, Head(prog[s]).mode)

\* The worker's next lock step: the lock is taken once it is free, the last
\* guard is dropped, the loop over the clients is entered with other sessions
\* that have the file open, in the order the clients map yields them, or the
\* worker ends; after the last step the session has the file open that its
\* handler left it with, and the worker reads its next request.
LockStep(s) ==
  /\ CanStep(s)
  /\ LET st == Head(prog[s]) IN
     /\ held' = IF st.op = "acq"
                THEN [held EXCEPT ![s] = Append(@, Taken(st.lock, st.mode))]
                ELSE IF st.op = "rel" THEN Released(s)
                ELSE held
     /\ IF st.op = "each"
        THEN \E S \in SUBSET {t \in Sessions \ {s} : opened_file[t] = opened_file[s]} :
             \E order \in Orders(S) :
               prog' = [prog EXCEPT ![s] = SendAll(order) \o Tail(@)]
        ELSE prog' = [prog EXCEPT ![s] = Tail(@)]
     /\ pc' = [pc EXCEPT ![s] = IF st.op = "halt" THEN "done"
                                ELSE IF Len(prog[s]) = 1 THEN "idle" ELSE "locks"]
     /\ opened_file' = IF st.op # "halt" /\ Len(prog[s]) = 1
                       THEN [opened_file EXCEPT ![s] = cur[s].p]
                       ELSE opened_file
  /\ UNCHANGED <<files, disk, shared_out, sink, cur, budget,
                 overflow_checks, editSeq, attachedAt, nOpen, snaps>>
  /\ UNCHANGED ropeVars

\* The handler returns an error where it stands (a missing entry, a poisoned
\* lock, a failed file operation): its guards drop, the reply is still to be
\* written, and a failed file_open or file_close may have left no file open.
LockError(s) ==
  /\ CanStep(s)
  /\ Len(prog[s]) > Len(SendLocks(s))
  /\ held' = [held EXCEPT ![s] = <<>>]
  /\ prog' = [prog EXCEPT ![s] = SendLocks(s)]
  /\ \E f \in {opened_file[s], None} : cur' = [cur EXCEPT ![s].p = f]
  /\ UNCHANGED <<files, disk, opened_file, shared_out, sink, pc, budget,
                 overflow_checks, editSeq, attachedAt, nOpen, snaps>>
  /\ UNCHANGED ropeVars

\* The worker panics where it stands: the unwinding drops its guards.
LockPanic(s) ==
  /\ CanStep(s)
  /\ held' = [held EXCEPT ![s] = <<>>]
  /\ prog' = [prog EXCEPT ![s] = <<>>]
  /\ pc' = [pc EXCEPT ![s] = "panicked"]
  /\ UNCHANGED <<files, disk, opened_file, shared_out, sink, cur, budget,
                 overflow_checks, editSeq, attachedAt, nOpen, snaps>>
  /\ UNCHANGED ropeVars

\* --------------------------------------------------- server: GetCursorsReq
\* FileState::get_cursors under the clients lock: the caller's own offset, and
\* the offsets of the entries of the clients map in the order the HashMap
\* yields them; the map's iterator is not filtered, so the caller's entry is
\* among them.
GetCursorsReq(s) ==
  /\ pc[s] = "idle" /\ budget > 0
  /\ budget' = budget - 1
  /\ LET p == opened_file[s]
         e == CursorPrelude(s)
         req == Req("GetCursorsReq", None, None, 0, <<>>, 0)
     IN IF e # "" THEN ReplyAndIdle(s, ReplyTo(req, e))
        ELSE IF s \notin DOMAIN files[p].clients THEN ReplyAndIdle(s, ReplyTo(req, E_NOID))
        ELSE \E order \in Orders(DOMAIN files[p].clients) :
               ReplyAndIdle(s, ReplyTo([req EXCEPT
                 !.off = files[p].clients[s],
                 !.data = [i \in 1..Len(order) |-> files[p].clients[order[i]]]], ""))
  /\ UNCHANGED <<files, disk, opened_file, shared_out, overflow_checks, editSeq,
                 attachedAt, nOpen, snaps>>
  /\ UNCHANGED <<ropeVars, lockVars>>

\* ------------------------------------------------ server: open, lock by lock
\* A table guard that FileStates::open would take with op in place of mut_op.
OpenGuardShared == Taken(TableLock, "r")

\* The guard FileStates::open works under: mut_op, container.write().
OpenGuard == Taken(TableLock, "w")

\* LocalState::file_open once no file is open, up to FileStates::open holding
\* the table's guard: canonicalize, the home check, the lock.
OpenTake(s, req) ==
  IF req.p \notin DOMAIN disk
  THEN ReplyAndIdle(s, ReplyTo(req, E_IO)) /\ UNCHANGED held
  ELSE IF ~InHome(req.p)
  THEN ReplyAndIdle(s, ReplyTo(req, E_PATH)) /\ UNCHANGED held
  ELSE /\ CanLock(OpenGuard.lock, OpenGuard.mode)
       /\ held' = [held EXCEPT ![s] = Append(@, OpenGuard)]
       /\ pc' = [pc EXCEPT ![s] = "open_w"]
       /\ cur' = [cur EXCEPT ![s] = req]
       /\ UNCHANGED sink

\* OpenReq(name) up to the table's guard; with a file open, up to the first
\* half of its close, which reads the table.
OpenStart(s, p) ==
  /\ pc[s] = "idle" /\ budget > 0
  /\ budget' = budget - 1
  /\ IF opened_file[s] = None
     THEN OpenTake(s, Req("OpenReq", p, None, 0, <<>>, 0)) /\ UNCHANGED files
     ELSE /\ CanLock(TableLock, "r")
          /\ Detach(s, Req("OpenReq", p, None, 0, <<>>, 0))
          /\ UNCHANGED held
  /\ UNCHANGED <<disk, opened_file, shared_out, overflow_checks, editSeq,
                 attachedAt, nOpen, snaps, prog>>
  /\ UNCHANGED ropeVars

\* file_open after its file_close returned.
OpenResume(s) ==
  /\ pc[s] = "open"
  /\ OpenTake(s, cur[s])
  /\ UNCHANGED <<files, disk, opened_file, shared_out, budget, overflow_checks,
                 editSeq, attachedAt, nOpen, snaps, prog>>
  /\ UNCHANGED ropeVars

\* The session is attached: opened_file is set and OpenResp(Ok) is written.
Opened(s, p) ==
  /\ held' = Released(s)
  /\ opened_file' = [opened_file EXCEPT ![s] = p]
  /\ attachedAt' = [attachedAt EXCEPT ![s] = editSeq]
  /\ nOpen' = [nOpen EXCEPT ![s] = @ + 1]
  /\ ReplyAndIdle(s, ReplyTo(cur[s], ""))

\* FileStates::open under its guard: container.get(&path). An entry takes
\* the client at offset 0; without one read_to_rope loads the file.
OpenGet(s) ==
  /\ pc[s] = "open_w"
  /\ LET p == cur[s].p IN
     IF p \in DOMAIN files
     THEN IF files[p].clients_poisoned
          THEN /\ held' = Released(s)
               /\ ReplyAndIdle(s, ReplyTo(cur[s], E_POISON))
               /\ UNCHANGED <<files, opened_file, attachedAt, nOpen>>
          ELSE /\ files' = [files EXCEPT ![p].clients = MapPut(@, s, 0)]
               /\ Opened(s, p)
     ELSE IF p \notin DOMAIN disk
     THEN /\ held' = Released(s)
          /\ ReplyAndIdle(s, ReplyTo(cur[s], E_IO))
          /\ UNCHANGED <<files, opened_file, attachedAt, nOpen>>
     ELSE /\ cur' = [cur EXCEPT ![s].res = Done(ReadToRope(disk[p]))]
          /\ pc' = [pc EXCEPT ![s] = "open_ins"]
          /\ UNCHANGED <<files, opened_file, attachedAt, nOpen, sink, held>>
  /\ UNCHANGED <<disk, shared_out, budget, overflow_checks, editSeq, snaps, prog>>
  /\ UNCHANGED ropeVars

\* The None arm goes on: FileState::new over the loaded rope, add_client,
\* container.insert, which replaces whatever entry the path has by then.
OpenInsert(s) ==
  /\ pc[s] = "open_ins"
  /\ LET p == cur[s].p IN
     /\ files' = MapPut(files, p, [NewFileState(cur[s].res.node)
                                     EXCEPT !.clients = MapPut(EmptyMap, s, 0)])
     /\ Opened(s, p)
  /\ UNCHANGED <<disk, shared_out, budget, overflow_checks, editSeq, snaps, prog>>
  /\ UNCHANGED ropeVars

\* -------------------------------------------- server: cursor edits in steps
\* WriteAtCursorReq / RemoveAtCursorReq up to the lookup of the session's
\* offset: get_opened, the file's entry, clients_op taking the clients lock,
\* clients.get(&id). The errors of that stretch are answered at once.
CursorLookup(s, req) ==
  /\ pc[s] = "idle" /\ budget > 0
  /\ budget' = budget - 1
  /\ LET p == opened_file[s] IN
     IF p = None \/ p \notin DOMAIN files
     THEN CursorEdit(s, req) /\ UNCHANGED held
     ELSE /\ CanLock(ClientsLock(p), "w")
          /\ IF files[p].clients_poisoned \/ s \notin DOMAIN files[p].clients
             THEN CursorEdit(s, req) /\ UNCHANGED held
             ELSE /\ held' = [held EXCEPT ![s] = Append(@, Taken(ClientsLock(p), "w"))]
                  /\ pc' = [pc EXCEPT ![s] = "cur_w"]
                  /\ cur' = [cur EXCEPT ![s] = [req EXCEPT !.off = files[p].clients[s]]]
                  /\ UNCHANGED <<files, sink, editSeq, snaps>>
  /\ UNCHANGED <<disk, opened_file, shared_out, overflow_checks, attachedAt,
                 nOpen, prog>>
  /\ UNCHANGED ropeVars

\* The rest of write_at_cursor / remove_at_cursor, the clients lock still
\* held: the rope edit at the offset found (the map has not changed since),
\* the shift, the guard dropped, the reply.
CursorApply(s) ==
  /\ pc[s] = "cur_w"
  /\ held' = Released(s)
  /\ CursorEdit(s, [cur[s] EXCEPT !.off = 0])
  /\ UNCHANGED <<disk, opened_file, shared_out, budget, overflow_checks,
                 attachedAt, nOpen, prog>>
  /\ UNCHANGED ropeVars

\* ---------------------------------------------------------- specifications
\* Requests each server specification lets the sessions send in all.
MaxEditReqs == 3
MaxLifeReqs == 4
MaxSaveReqs == 3
MaxFsReqs == 3
MaxLinReqs == 3
MaxQueryReqs == 3
\* Largest absolute offset of a WriteReq, RemoveReq or ReadReq.
MaxOff == 2
\* Largest length of a ReadReq.
MaxReadLen == 2

\* The bytes a WriteReq or WriteAtCursorReq carries.
EditData == {<<2>>}

\* The files under the home directory, and those with the ones beside it.
HomeDisk == [p \in HomePaths |-> IF p = "a" THEN <<1>> ELSE <<>>]
FsDisk == [p \in {"a", "x"} |-> IF p = "a" THEN <<1>> ELSE <<2>>]

\* Rope::new, beside the reference sequence the same edits are applied to;
\* no server around it.
RopeInit ==
  /\ rope = EmptyLeaf
  /\ refSeq = <<>>
  /\ crossed = 0
  /\ ServerInit(0, EmptyMap)
  /\ overflow_checks = TRUE

\* Rope::insert_at with index in [0, len].
RopeInsert(index, input) ==
  /\ index <= Size(rope)
  /\ Size(rope) + Len(input) <= MaxRopeLen
  /\ rope' = NodeInsertAt(rope, index, input).node
  /\ refSeq' = SeqInsert(refSeq, index, input)
  /\ UNCHANGED crossed
  /\ UNCHANGED serverVars

\* Rope::remove with from + size <= len.
RopeRemove(from, size) ==
  /\ from + size <= Size(rope)
  /\ rope' = NodeRemoveRange(rope, from, from + size).node
  /\ refSeq' = SeqRemove(refSeq, from, size)
  /\ crossed' = Max(crossed, CrossDepth(rope, from, from + size))
  /\ UNCHANGED serverVars

\* Rope::flatten.
RopeFlatten ==
  /\ ~rope.leaf
  /\ rope' = NodeFlatten(rope)
  /\ UNCHANGED <<refSeq, crossed>>
  /\ UNCHANGED serverVars

RopeNext ==
  \/ \E index \in 0..MaxRopeLen, input \in SeqsUpTo(MaxInput) : RopeInsert(index, input)
  \/ \E from \in 0..MaxRopeLen, size \in 0..MaxRopeLen : RopeRemove(from, size)
  \/ RopeFlatten

RopeSpec == RopeInit /\ [][RopeNext]_vars

\* The server without a rope of RopeSpec.
NoRope ==
  /\ rope = EmptyLeaf
  /\ refSeq = <<>>
  /\ crossed = 0

\* Editing: every session has opened "a"; the sessions edit it at absolute
\* offsets and at their cursors, move their cursors, close, open and leave.
EditInit == NoRope /\ AttachedInit(MaxEditReqs, HomeDisk, "a", Sessions)

EditNext ==
  \E s \in Sessions :
    \/ \E p \in HomePaths : OpenReq(s, p)
    \/ CloseReq(s)
    \/ Evict(s)
    \/ OpenAfterClose(s)
    \/ \E off \in 0..MaxOff, data \in EditData : WriteReq(s, off, data)
    \/ \E off \in 0..MaxOff, len \in 1..1 : RemoveReq(s, off, len)
    \/ Broadcast(s)
    \/ \E delta \in {-1, 1} : MoveCursor(s, delta)
    \/ \E data \in EditData : WriteAtCursorReq(s, data)
    \/ \E len \in 1..1 : RemoveAtCursorReq(s, len)
    \/ Exit(s)

EditSpec == EditInit /\ [][EditNext]_vars

\* The life of the table's entries: workers start, open, close and end.
LifeInit == NoRope /\ ServerInit(MaxLifeReqs, HomeDisk)

LifeNext ==
  \E s \in Sessions :
    \/ Connect(s)
    \/ \E p \in HomePaths : OpenReq(s, p)
    \/ CloseReq(s)
    \/ Evict(s)
    \/ OpenAfterClose(s)
    \/ Exit(s)
    \/ Terminal(s)
    \/ LoopError(s)

LifeSpec == LifeInit /\ [][LifeNext]_vars

\* Saving: every session has opened "a"; they save it and edit it.
SaveInit == NoRope /\ AttachedInit(MaxSaveReqs, HomeDisk, "a", Sessions)

SaveNext ==
  \E s \in Sessions :
    \/ SaveReq(s)
    \/ SaveLen(s)
    \/ SaveCollect(s)
    \/ SaveCreate(s)
    \/ SaveWrite(s)
    \/ \E off \in 0..MaxOff, data \in EditData : WriteReq(s, off, data)
    \/ \E off \in 0..MaxOff, len \in 1..1 : RemoveReq(s, off, len)
    \/ Broadcast(s)

SaveSpec == SaveInit /\ [][SaveNext]_vars

\* The file system: session 1 has opened "a", a file lies outside the home;
\* the sessions create, delete, rename, open and close.
FsInit == NoRope /\ AttachedInit(MaxFsReqs, FsDisk, "a", {1})

FsNext ==
  \E s \in Sessions :
    \/ \E p \in Paths : CreateReq(s, p)
    \/ \E p \in Paths : DeleteReq(s, p)
    \/ DeleteFs(s)
    \/ \E from \in Paths, to \in Paths : RenameReq(s, from, to)
    \/ RenameFs(s)
    \/ \E p \in Paths : OpenReq(s, p)
    \/ CloseReq(s)
    \/ Evict(s)
    \/ OpenAfterClose(s)

FsSpec == FsInit /\ [][FsNext]_vars

\* Edits and reads lock by lock: every session has opened "a"; the sessions
\* write to it, remove from it and read it, each rope call taking the root's
\* lock, working and dropping it in steps of its own.
LinInit ==
  /\ rope = EmptyLeaf
  /\ refSeq = HomeDisk["a"]
  /\ crossed = 0
  /\ AttachedInit(MaxLinReqs, HomeDisk, "a", Sessions)

LinNext ==
  \E s \in Sessions :
    \/ \E off \in 0..MaxOff, data \in EditData :
         EditLock(s, Req("WriteReq", None, None, off, data, 0))
    \/ \E off \in 0..MaxOff, len \in 1..1 :
         EditLock(s, Req("RemoveReq", None, None, off, <<>>, len))
    \/ EditUnlock(s)
    \/ Broadcast(s)
    \/ \E off \in 0..MaxOff, len \in 0..MaxReadLen : ReadLock(s, off, len)
    \/ ReadUnlock(s)

LinSpec == LinInit /\ [][LinNext]_vars

\* The locking of the handlers: workers start, serve requests of every kind
\* on either file, fail, panic and end, each taking and dropping its locks
\* step by step.
LockInit == NoRope /\ ServerInit(0, HomeDisk) /\ overflow_checks = TRUE

LockNext ==
  \E s \in Sessions :
    \/ LockConnect(s)
    \/ LockStart(s)
    \/ LockExit(s)
    \/ LockStep(s)
    \/ LockError(s)
    \/ LockPanic(s)

LockSpec == LockInit /\ [][LockNext]_vars

\* Requests of every kind that needs an open file: sessions 1 and 2 have
\* opened "a", session 3 has no file open.
QueryInit == NoRope /\ AttachedInit(MaxQueryReqs, HomeDisk, "a", {1, 2})

QueryNext ==
  \E s \in Sessions :
    \/ \E off \in {0, WordMod - 1}, len \in 1..1 : ReadLock(s, off, len)
    \/ ReadUnlock(s)
    \/ \E data \in EditData : WriteReq(s, 0, data)
    \/ \E len \in 1..1 : RemoveReq(s, 0, len)
    \/ Broadcast(s)
    \/ SaveReq(s)
    \/ SaveLen(s)
    \/ SaveCollect(s)
    \/ SaveCreate(s)
    \/ SaveWrite(s)
    \/ \E delta \in {-1, 1} : MoveCursor(s, delta)
    \/ \E data \in EditData : WriteAtCursorReq(s, data)
    \/ \E len \in 1..1 : RemoveAtCursorReq(s, len)
    \/ GetCursorsReq(s)

QuerySpec == QueryInit /\ [][QueryNext]_vars

\* Opening lock by lock: workers start, open either file, close and end; the
\* open takes the table's guard, looks the path up, loads and inserts in
\* steps of its own, the halves of a close each wait for the table's lock.
OpenNext ==
  \E s \in Sessions :
    \/ Connect(s)
    \/ \E p \in HomePaths : OpenStart(s, p)
    \/ OpenResume(s)
    \/ OpenGet(s)
    \/ OpenInsert(s)
    \/ CanLock(TableLock, "r") /\ CloseReq(s)
    \/ CanLock(TableLock, "w") /\ Evict(s)
    \/ Exit(s)

OpenSpec == LifeInit /\ [][OpenNext]_vars

\* Cursor edits in steps beside absolute edits: every session has opened "a";
\* whatever works on the clients map waits for its lock.
CursorNext ==
  \E s \in Sessions :
    \/ \E data \in EditData :
         CursorLookup(s, Req("WriteAtCursorReq", None, None, 0, data, 0))
    \/ \E len \in 1..1 :
         CursorLookup(s, Req("RemoveAtCursorReq", None, None, 0, <<>>, len))
    \/ CursorApply(s)
    \/ \E off \in 0..MaxOff, data \in EditData : WriteReq(s, off, data)
    \/ \E off \in 0..MaxOff, len \in 1..1 : RemoveReq(s, off, len)
    \/ CanLock(ClientsLock("a"), "w") /\ Broadcast(s)
    \/ \E delta \in {-1, 1} : CanLock(ClientsLock("a"), "w") /\ MoveCursor(s, delta)
    \/ CanLock(ClientsLock("a"), "w") /\ GetCursorsReq(s)

CursorSpec == EditInit /\ [][CursorNext]_vars

\* A worker whose write to another session's stream does not return: it is
\* inside that session's sink, and the recipient does not drain its socket.
Stuck(s) ==
  \E i \in 1..Len(held[s]) :
    held[s][i].lock.kind = "sink" /\ held[s][i].lock.sess # s

\* A shared acquisition of the file table's or the outbound map's lock while
\* readers hold it and another worker is parked for it exclusively:
\* parking_lot parks the new reader behind the waiting writer.
Overtakes(s) ==
  /\ pc[s] = "locks"
  /\ Head(prog[s]).op = "acq" /\ Head(prog[s]).mode = "r"
  /\ Head(prog[s]).lock \in {TableLock, OutLock}
  /\ ~CanLock(Head(prog[s]).lock, "w")
  /\ \E t \in Sessions \ {s} :
       /\ pc[t] = "locks"
       /\ Head(prog[t]) = Acq(Head(prog[s]).lock, "w")

\* Handlers that run to their end (an error or a panic only drops guards);
\* the last session attaches and leaves without sending a request.
LockFairNext ==
  \E s \in Sessions :
    \/ LockConnect(s)
    \/ s < NumSessions /\ LockStart(s)
    \/ LockExit(s)
    \/ LockStep(s) /\ ~Overtakes(s)

\* The scheduler runs every worker, and the locks hand themselves to every
\* worker that keeps finding them free (parking_lot queues its waiters), but a
\* write to a recipient that does not drain may never return.
LockFairSpec ==
  /\ LockInit /\ [][LockFairNext]_vars
  /\ \A s \in Sessions : SF_vars(LockStep(s) /\ ~Overtakes(s) /\ ~Stuck(s))

\* ------------------------------------------------------------------ claims
Last(q) == q[Len(q)]

\* C1: after any sequence of valid inserts and removes from the empty rope,
\* collect(0, len()) is the reference sequence and len() is its length.
C1_RoundTrip ==
  /\ Collect(rope, 0, Size(rope)) = [ok |-> TRUE, bytes |-> refSeq]
  /\ Size(rope) = Len(refSeq)

\* A remove has crossed split points at two depths and left bytes behind.
C1_Witness == crossed >= 2 /\ Len(refSeq) > 0 /\ ~rope.leaf

\* C2: a WriteReq or RemoveReq that is answered Ok has put exactly one update
\* with its values on the sink of every other session that was attached to
\* the file when the rope was edited, and nothing on any other sink.
C2_FanOut ==
  [][\A s \in Sessions :
       (Broadcast(s) /\ Last(sink'[s]).err = "") =>
         \A t \in Sessions \ {s} :
           sink'[t] = IF t \in cur[s].at
                      THEN Append(sink[t], UpdateOf(cur[s]))
                      ELSE sink[t]]_vars

\* C3: on the sink of a session attached to the file throughout, the updates
\* stand in the order in which their edits were applied to the rope.
C3_UpdateOrder ==
  \A t \in Sessions :
    nOpen[t] = 1 =>
      \A i, j \in 1..Len(Updates(sink[t])) :
        i < j => Updates(sink[t])[i].seq < Updates(sink[t])[j].seq

\* C4: when an absolute write(o, d) or remove(o, k) is applied, every other
\* attached cursor c stays if c < o and else becomes c + |d|, or max(o, c - k).
C4_AbsoluteShift ==
  [][\A s \in Sessions :
       (pc[s] = "idle" /\ pc'[s] = "bcast") =>
         LET p == opened_file[s]
             req == cur'[s]
         IN \A t \in DOMAIN files[p].clients \ {s} :
              LET c == files[p].clients[t] IN
              files'[p].clients[t] =
                IF c < req.off THEN c
                ELSE IF req.kind = "WriteReq" THEN c + Len(req.data)
                ELSE Max(req.off, c - req.len)]_vars

\* Session s is attached: its open file is in the table with s as a client.
IsAttached(s) ==
  /\ opened_file[s] \in DOMAIN files
  /\ s \in DOMAIN files[opened_file[s]].clients

LocksSound(p) == ~files[p].rope_poisoned /\ ~files[p].clients_poisoned

\* The request taken in this step is answered with an error and the table is
\* as it was.
Rejected(s) ==
  /\ pc'[s] = "idle"
  /\ Len(sink'[s]) = Len(sink[s]) + 1
  /\ Last(sink'[s]).err # ""
  /\ files' = files

\* The request taken in this step is answered Ok with offset o.
Returned(s, o) ==
  /\ pc'[s] = "idle"
  /\ Len(sink'[s]) = Len(sink[s]) + 1
  /\ Last(sink'[s]).err = ""
  /\ Last(sink'[s]).off = o

\* C5: write_at_cursor by an attached session with cursor o inserts at o,
\* returns o and moves every cursor at or after o by the length;
\* remove_at_cursor removes [o, o + len), returns o and moves every cursor at
\* or after o to max(o, cursor - len); from a session that is not attached
\* both fail and change nothing.
C5_CursorEdit ==
  [][\A s \in Sessions :
       LET p == opened_file[s] IN
       /\ \A data \in EditData :
            WriteAtCursorReq(s, data) =>
              IF ~IsAttached(s) THEN Rejected(s)
              ELSE LocksSound(p) =>
                   LET o == files[p].clients[s] IN
                   /\ Returned(s, o)
                   /\ LocksSound(p)'
                   /\ Content(files'[p].rope) = SeqInsert(Content(files[p].rope), o, data)
                   /\ \A t \in DOMAIN files[p].clients :
                        LET c == files[p].clients[t] IN
                        files'[p].clients[t] = IF c >= o THEN c + Len(data) ELSE c
       /\ \A len \in 1..1 :
            RemoveAtCursorReq(s, len) =>
              IF ~IsAttached(s) THEN Rejected(s)
              ELSE LocksSound(p) =>
                   LET o == files[p].clients[s] IN
                   /\ Returned(s, o)
                   /\ LocksSound(p)'
                   /\ Content(files'[p].rope) = SeqRemove(Content(files[p].rope), o, len)
                   /\ \A t \in DOMAIN files[p].clients :
                        LET c == files[p].clients[t] IN
                        files'[p].clients[t] = IF c >= o THEN Max(o, c - len) ELSE c]_vars

\* C6: the cursor of every session attached to a file is at most the length
\* of the file's rope, whenever no edit of the rope is under way.
C6_CursorInRange ==
  \A p \in DOMAIN files :
    ~files[p].rope_poisoned =>
      \A t \in DOMAIN files[p].clients : files[p].clients[t] <= Size(files[p].rope)

\* A worker that still runs.
Live(s) == pc[s] \notin {"new", "done", "panicked"}

\* C7: a path is a key of the table exactly when a session is attached to it:
\* a key whose closes have completed has a running session with it open, and
\* the open file of a running session that is not closing it is a key.
C7_TableKeys ==
  /\ \A p \in DOMAIN files :
       (\A s \in Sessions : ~(pc[s] = "evict" /\ opened_file[s] = p)) =>
         \E s \in Sessions : Live(s) /\ opened_file[s] = p /\ s \in DOMAIN files[p].clients
  /\ \A s \in Sessions :
       (pc[s] = "idle" /\ opened_file[s] # None) => IsAttached(s)

\* C8: the bytes a SaveReq leaves on disk are the whole content the rope had
\* at one moment while the save ran.
C8_SaveSnapshot ==
  [][\A s \in Sessions :
       (SaveWrite(s) /\ Last(sink'[s]).err = "") =>
         disk'[opened_file[s]] \in snaps[s]]_vars

\* The step leaves disk and table alone and, when it answers, answers with the
\* path error.
Refused(s) ==
  /\ disk' = disk
  /\ files' = files
  /\ pc'[s] = "idle" => Last(sink'[s]).err = E_PATH

\* C9: a CreateReq, DeleteReq, RenameReq or OpenReq with a path that resolves
\* outside the home is answered with the path error and changes neither the
\* file system nor the table.
C9_Sandbox ==
  [][\A s \in Sessions, p \in OutsidePaths :
       /\ (p \notin DOMAIN disk /\ CreateReq(s, p)) => Refused(s)
       /\ (p \in DOMAIN disk /\ DeleteReq(s, p)) => Refused(s)
       /\ (DeleteFs(s) /\ cur[s].p = p) => Refused(s)
       /\ \A q \in Paths :
            \/ /\ ~(p \in DOMAIN disk /\ RenameReq(s, p, q))
               /\ ~(q \in DOMAIN disk /\ RenameReq(s, q, p))
            \/ Refused(s)
       /\ (RenameFs(s) /\ p \in {cur[s].p, cur[s].q}) => Refused(s)
       /\ (p \in DOMAIN disk /\ OpenReq(s, p)) => Refused(s)
       /\ ((Evict(s) \/ OpenAfterClose(s)) /\ cur[s].kind = "OpenReq" /\ cur[s].p = p
             /\ p \in DOMAIN disk)
            => Refused(s)]_vars

\* C10: a WriteReq past the rope's length, and a RemoveReq or
\* RemoveAtCursorReq whose range ends past it, is answered with an error,
\* leaves rope and cursors as they were, and the session serves on.
C10_OutOfRange ==
  [][\A s \in Sessions :
       LET p == opened_file[s] IN
       (IsAttached(s) /\ LocksSound(p)) =>
         /\ \A off \in 0..MaxOff, data \in EditData :
              (WriteReq(s, off, data) /\ off > Size(files[p].rope)) => Rejected(s)
         /\ \A off \in 0..MaxOff, len \in 1..1 :
              (RemoveReq(s, off, len) /\ off + len > Size(files[p].rope)) => Rejected(s)
         /\ \A len \in 1..1 :
              (RemoveAtCursorReq(s, len)
                 /\ files[p].clients[s] + len > Size(files[p].rope)) => Rejected(s)]_vars

\* C11: when a session's worker panics in a request on a file, the file's
\* locks stay usable for the other sessions and its bytes and cursors are
\* those from before the request.
C11_PanicIsolation ==
  [][\A s \in Sessions :
       (pc[s] # "panicked" /\ pc'[s] = "panicked" /\ opened_file[s] \in DOMAIN files) =>
         LET p == opened_file[s] IN
         /\ ~files'[p].rope_poisoned
         /\ ~files'[p].clients_poisoned
         /\ Content(files'[p].rope) = Content(files[p].rope)
         /\ files'[p].clients = files[p].clients]_vars

\* What Rope::collect(from, to) gives for a rope holding seq: the bytes of
\* [from, to) that exist.
ReadSlice(seq, from, to) == SubSeq(seq, Min(from, Len(seq)) + 1, Min(to, Len(seq)))

\* C12: concurrent edits and reads of a file are linearizable: every edit
\* leaves the rope holding the reference sequence with the edits applied one
\* at a time in the order the rope took them, and every read returns the bytes
\* of that sequence as it is between two whole edits.
C12_Linearizable ==
  [][\A s \in Sessions :
       LET p == opened_file[s] IN
       /\ (pc[s] = "rope_w" /\ pc'[s] = "bcast") =>
            /\ Content(files'[p].rope) = refSeq'
            /\ Size(files'[p].rope) = Len(refSeq')
       /\ (pc[s] = "rope_r" /\ pc'[s] = "idle") =>
            /\ Last(sink'[s]).err = ""
            /\ Last(sink'[s]).data = ReadSlice(refSeq, cur[s].off, cur[s].off + cur[s].len)]_vars

\* A session has read two bytes of the rope after an edit, while another
\* session's edit is under way.
C12_Witness ==
  /\ editSeq >= 1
  /\ \E t \in Sessions : pc[t] = "rope_w"
  /\ \E s \in Sessions : \E i \in 1..Len(sink[s]) :
       sink[s][i].kind = "ReadResp" /\ sink[s][i].err = "" /\ Len(sink[s][i].data) = 2

\* The place of a lock in the order: the table, a file's clients, its rope,
\* the outbound map, a sink.
LockRank(l) ==
  CASE l.kind = "table" -> 1
    [] l.kind = "clients" -> 2
    [] l.kind = "rope" -> 3
    [] l.kind = "out" -> 4
    [] OTHER -> 5

\* Session s waits for a lock because of session t: t holds it in a mode that
\* excludes s, or s wants to read and t is a writer queued for the lock (the
\* RwLocks may make readers queue behind a waiting writer).
WaitsFor(s, t) ==
  /\ s # t
  /\ pc[s] = "locks" /\ Head(prog[s]).op = "acq"
  /\ LET l == Head(prog[s]).lock
         m == Head(prog[s]).mode
     IN \/ \E i \in 1..Len(held[t]) :
             held[t][i].lock = l /\ (m = "w" \/ held[t][i].mode = "w")
        \/ /\ m = "r"
           /\ pc[t] = "locks" /\ Head(prog[t]) = Acq(l, "w") /\ ~CanLock(l, "w")

\* C13: in every interleaving of workers that connect, open, close, read,
\* edit, move and edit at cursors, save, broadcast, fail and exit, each worker
\* holds its locks in the one order table, clients, rope, outbound map, sink,
\* and there is no set of workers each of which waits for a lock because of
\* another worker of the set.
C13_LockOrder ==
  /\ \A s \in Sessions : \A i, j \in 1..Len(held[s]) :
       i < j => LockRank(held[s][i].lock) < LockRank(held[s][j].lock)
  /\ ~ \E D \in SUBSET Sessions :
         /\ D # {}
         /\ \A s \in D : \E t \in D : WaitsFor(s, t)

\* A worker that holds the table and the clients lock waits for the rope
\* while another worker holds the rope, and a third worker, holding the
\* table, waits for the clients lock of the first.
C13_Witness ==
  \E s, t, u \in Sessions :
    /\ WaitsFor(s, t) /\ WaitsFor(u, s)
    /\ Len(held[s]) = 2 /\ Head(prog[s]).lock = RopeLock("a")
    /\ Len(held[t]) = 2
    /\ Len(held[u]) = 1

\* C14: when a session ends on inbound EOF or on a terminal message, then
\* afterwards it is a client of no file, the file it had open has left the
\* table if it was the file's last client, and it has no outbound entry.
C14_ExitCleanup ==
  [][\A s \in Sessions :
       (Exit(s) \/ Terminal(s)) =>
         /\ s \notin shared_out'
         /\ \A p \in DOMAIN files' : s \notin DOMAIN files'[p].clients
         /\ (IsAttached(s) /\ DOMAIN files[opened_file[s]].clients = {s}) =>
              opened_file[s] \notin DOMAIN files']_vars

\* C15: when the session loop ends with an error, the removal of the
\* session's outbound entry is still carried out and the worker ends.
C15_CleanupOnError ==
  [][\A s \in Sessions :
       LoopError(s) => (pc'[s] \in {"done", "panicked"} /\ s \notin shared_out')]_vars

\* C16: a successful WriteAtCursorReq{data} of session s sends Add{offset,
\* data}, with offset the cursor of s before the write, to every other
\* session attached to its file, a successful RemoveAtCursorReq{len} sends
\* Remove{offset, len} in the same way, and neither sends s anything but its
\* reply.
C16_CursorEditFanOut ==
  [][\A s \in Sessions :
       ( /\ \/ \E data \in EditData : WriteAtCursorReq(s, data)
            \/ \E len \in 1..1 : RemoveAtCursorReq(s, len)
         /\ pc'[s] = "idle"
         /\ Last(sink'[s]).err = "" ) =>
           LET p == opened_file[s]
               o == files[p].clients[s]
               resp == Last(sink'[s])
           IN /\ Len(sink'[s]) = Len(sink[s]) + 1
              /\ \A t \in DOMAIN files[p].clients \ {s} :
                   /\ Len(sink'[t]) = Len(sink[t]) + 1
                   /\ Last(sink'[t]).kind =
                        (IF resp.kind = "WriteAtCursorResp" THEN "Add" ELSE "Remove")
                   /\ Last(sink'[t]).off = o
                   /\ Last(sink'[t]).data = resp.data
                   /\ Last(sink'[t]).len = resp.len]_vars

\* The sessions a broadcast of session s is for, and whether the delivery to
\* one of them fails.
Recipients(s) == DOMAIN files[opened_file[s]].clients \ {s}

DeliveryFails(s) ==
  /\ opened_file[s] \in DOMAIN files
  /\ ~files[opened_file[s]].clients_poisoned
  /\ ~(Recipients(s) \subseteq shared_out)

\* C17: when the delivery of an update to one recipient fails during the
\* broadcast of an edit, every other session attached to the file still
\* receives the update.
C17_BroadcastGoesOn ==
  [][\A s \in Sessions :
       (Broadcast(s) /\ DeliveryFails(s)) =>
         \A t \in Recipients(s) \cap shared_out :
           sink'[t] = Append(sink[t], UpdateOf(cur[s]))]_vars

\* C18: when an edit has been applied and the delivery of its update to some
\* recipient fails, the client that sent the edit still gets the ok reply.
C18_ReplyOkDespiteBroadcast ==
  [][\A s \in Sessions :
       (Broadcast(s) /\ DeliveryFails(s)) =>
         /\ Last(sink'[s]).kind = RespKind(cur[s].kind)
         /\ Last(sink'[s]).err = ""]_vars

\* C19: a DeleteReq or RenameReq whose source file is open in some session is
\* answered "File is busy" and leaves the disk as it was; a RenameReq whose
\* target exists fails and leaves the disk as it was; and no file is deleted
\* or renamed on disk while it is a key of the table.
C19_BusyFiles ==
  [][\A s \in Sessions :
       /\ (pc[s] = "idle" /\ pc'[s] = "idle" /\ Len(sink'[s]) = Len(sink[s]) + 1
           /\ Last(sink'[s]).kind \in {"DeleteResp", "RenameResp"}) =>
            LET m == Last(sink'[s]) IN
            /\ disk' = disk
            /\ (m.p \in DOMAIN disk /\ m.p \in DOMAIN files
                /\ (m.kind = "DeleteResp" \/ m.q \notin DOMAIN disk)) => m.err = E_BUSY
            /\ (m.kind = "RenameResp" /\ m.q \in DOMAIN disk) => m.err # ""
       /\ (pc[s] = "idle" /\ pc'[s] \in {"delete_fs", "rename_fs"}) =>
            /\ cur'[s].p \notin DOMAIN files
            /\ pc'[s] = "rename_fs" => cur'[s].q \notin DOMAIN disk
       /\ (pc[s] \in {"delete_fs", "rename_fs"} /\ pc'[s] = "idle" /\ disk' # disk) =>
            cur[s].p \notin DOMAIN files]_vars

\* The bytes of the flushes that have been answered Ok.
Flushed ==
  {m.data : m \in {n \in UNION {{sink[s][i] : i \in 1..Len(sink[s])} : s \in Sessions} :
                     n.kind = "SaveResp" /\ n.err = ""}}

\* C20: the create-and-truncate and write steps of two flushes of one file
\* never interleave: once the flushes have completed, the file on disk holds
\* the bytes written by one of them, whole.
C20_FlushesWhole ==
  ((\A s \in Sessions : pc[s] \notin {"save_create", "save_write"}) /\ Flushed # {}) =>
    disk["a"] \in Flushed

\* C21: move_cursor(id, delta) sets the cursor c of an attached session to
\* min(max(0, c + delta), rope.len()); for a session that is not a client of
\* its open file it changes nothing and reports no error.
C21_MoveCursorClamped ==
  [][\A s \in Sessions :
       ( /\ pc[s] = "idle" /\ pc'[s] = "idle"
         /\ Len(sink'[s]) = Len(sink[s]) + 1
         /\ Last(sink'[s]).kind = "MoveCursorResp"
         /\ opened_file[s] \in DOMAIN files /\ LocksSound(opened_file[s]) ) =>
           LET p == opened_file[s]
               delta == Last(sink'[s]).off
           IN /\ Last(sink'[s]).err = ""
              /\ IF s \in DOMAIN files[p].clients
                 THEN files'[p].clients[s] =
                        Min(Max(0, files[p].clients[s] + delta), Size(files[p].rope))
                 ELSE files' = files]_vars

\* C22: collect(from, to), and so ReadReq{offset, len} with from = offset and
\* to = offset + len, fails when to > len() or from > to and never returns a
\* clamped or shorter slice; for from <= to <= len() it returns exactly the
\* bytes at [from, to).
C22_CollectRange ==
  [][\A s \in Sessions :
       (pc[s] = "rope_r" /\ pc'[s] # "rope_r") =>
         LET n == files[opened_file[s]].rope
             from == cur[s].off
             to == cur[s].off + cur[s].len
         IN IF to > Size(n) \/ from > to
            THEN pc'[s] = "idle" /\ Last(sink'[s]).err # ""
            ELSE /\ pc'[s] = "idle" /\ Last(sink'[s]).err = ""
                 /\ Last(sink'[s]).data = SubSeq(Content(n), from + 1, to)]_vars

\* C23: after write(o, d) with o in [0, len], collect(o, o + |d|) is d, len()
\* has grown by |d| and the bytes before o and after the inserted run are
\* those before; after remove(o, k) with o + k <= len, the bytes that were at
\* [o + k, len) are at [o, len - k), the bytes before o are those before and
\* len() has shrunk by k.
C23_OffsetArithmetic ==
  [][/\ \A o \in 0..MaxRopeLen, d \in SeqsUpTo(MaxInput) :
          RopeInsert(o, d) =>
            LET n == Size(rope) IN
            /\ Size(rope') = n + Len(d)
            /\ Collect(rope', o, o + Len(d)) = [ok |-> TRUE, bytes |-> d]
            /\ Collect(rope', 0, o) = Collect(rope, 0, o)
            /\ Collect(rope', o + Len(d), n + Len(d)) = Collect(rope, o, n)
     /\ \A o \in 0..MaxRopeLen, k \in 0..MaxRopeLen :
          RopeRemove(o, k) =>
            LET n == Size(rope) IN
            /\ Size(rope') = n - k
            /\ Collect(rope', o, n - k) = Collect(rope, o + k, n)
            /\ Collect(rope', 0, o) = Collect(rope, 0, o)]_vars

\* An insert in the middle of a rope of several leaves, and a remove that
\* crossed a split point, have been made.
C23_Witness ==
  /\ ~rope.leaf /\ ~rope.l.leaf
  /\ crossed >= 1
  /\ Size(rope) >= 3

\* Session s takes a request from its stream in this step.
Requests(s) ==
  /\ pc[s] = "idle" /\ budget' < budget
  /\ pc'[s] # pc[s] \/ Len(sink'[s]) > Len(sink[s])

\* C24: when the session has no open file, each of WriteReq, RemoveReq,
\* ReadReq, SaveReq, MoveCursor, WriteAtCursorReq, RemoveAtCursorReq and
\* GetCursorsReq is answered with an error, changes no rope, clients map,
\* table entry or disk file, and sends no update to any session.
C24_NotOpen ==
  [][\A s \in Sessions :
       (Requests(s) /\ opened_file[s] = None) =>
         /\ pc'[s] = "idle"
         /\ Len(sink'[s]) = Len(sink[s]) + 1
         /\ Last(sink'[s]).err # ""
         /\ Last(sink'[s]).kind \in
              {"WriteResp", "RemoveResp", "ReadResp", "SaveResp", "MoveCursorResp",
               "WriteAtCursorResp", "RemoveAtCursorResp", "GetCursorsResp"}
         /\ files' = files /\ disk' = disk
         /\ \A t \in Sessions \ {s} : sink'[t] = sink[t]]_vars

\* The files whose clients map holds session s, in table f.
AttachedTo(f, s) == {p \in DOMAIN f : s \in DOMAIN f[p].clients}

\* C25: a session is a client of at most one file at any time; an OpenReq
\* issued while a file is open first takes the session out of that file's
\* clients (and the file out of the table when no client is left), and when
\* it is answered Ok the session is a client of the opened file only and that
\* file is its open file.
C25_OneFile ==
  [][\A s \in Sessions :
       /\ Cardinality(AttachedTo(files', s)) <= 1
       /\ (pc[s] = "evict" /\ pc'[s] = "open") =>
            /\ AttachedTo(files', s) = {}
            /\ opened_file'[s] = None
            /\ (opened_file[s] \in DOMAIN files
                /\ DOMAIN files[opened_file[s]].clients = {}) =>
                 opened_file[s] \notin DOMAIN files'
       /\ (pc'[s] = "idle" /\ Len(sink'[s]) = Len(sink[s]) + 1
           /\ Last(sink'[s]).kind = "OpenResp" /\ Last(sink'[s]).err = "") =>
            /\ opened_file'[s] = Last(sink'[s]).p
            /\ AttachedTo(files', s) = {Last(sink'[s]).p}]_vars

\* A session that had "a" open has opened "b": it is a client of "b" only,
\* and "a", which had no other client, has left the table.
C25_Witness ==
  \E s \in Sessions :
    /\ nOpen[s] = 2 /\ pc[s] = "idle" /\ opened_file[s] = "b"
    /\ AttachedTo(files, s) = {"b"}
    /\ "a" \notin DOMAIN files
    /\ \E i \in 1..Len(sink[s]) : sink[s][i].kind = "OpenResp" /\ sink[s][i].p = "a"

\* C26: get_cursors(id) for an attached session returns the session's own
\* offset and a list with exactly one entry for each other client of the file
\* and none for the session itself; it fails when id is not a client.
C26_GetCursors ==
  [][\A s \in Sessions :
       ( /\ Requests(s) /\ pc'[s] = "idle"
         /\ Last(sink'[s]).kind = "GetCursorsResp"
         /\ opened_file[s] \in DOMAIN files /\ LocksSound(opened_file[s]) ) =>
           LET c == files[opened_file[s]].clients
               m == Last(sink'[s])
           IN IF s \notin DOMAIN c THEN m.err # ""
              ELSE /\ m.err = ""
                   /\ m.off = c[s]
                   /\ \E order \in Orders(DOMAIN c \ {s}) :
                        m.data = [i \in 1..Len(order) |-> c[order[i]]]]_vars

RECURSIVE SizesCached(_)
SizesCached(n) ==
  n.leaf \/ ( /\ n.index = Size(n.l)
              /\ n.size = Size(n.l) + Size(n.r)
              /\ SizesCached(n.l) /\ SizesCached(n.r) )

\* The number of bytes in the leaves of n.
RECURSIVE Bytes_In(_)
Bytes_In(n) == IF n.leaf THEN Len(n.data) ELSE Bytes_In(n.l) + Bytes_In(n.r)

\* C28: after every completed insert_at, remove and flatten, every Internal
\* node caches size = size(left) + size(right) and index = size(left), nodes
\* promoted during a remove included, so that the cached size of the root is
\* the number of bytes in its leaves.
C28_SizesCached == SizesCached(rope) /\ Size(rope) = Bytes_In(rope)

\* Removes have crossed a split point, and the root is an Internal node whose
\* right child is an Internal node too, three bytes in all.
C28_Witness ==
  /\ crossed >= 1
  /\ ~rope.leaf /\ ~rope.r.leaf
  /\ Size(rope) = 3

\* No Internal node of n has a child of size 0.
RECURSIVE NoEmptyChild(_)
NoEmptyChild(n) ==
  n.leaf \/ ( /\ Size(n.l) > 0 /\ Size(n.r) > 0
              /\ Bytes_In(n.l) > 0 /\ Bytes_In(n.r) > 0
              /\ NoEmptyChild(n.l) /\ NoEmptyChild(n.r) )

\* C29: after every completed insert_at or remove, inserts of no bytes and
\* removes of an empty range included, no Internal node has a child of size
\* 0 and a rope of no bytes is an empty leaf; a remove that empties exactly
\* one child of the root leaves that root replaced by what the remove left of
\* the other child, its whole subtree.
C29_NoEmptyChild ==
  [][/\ \A o \in 0..MaxRopeLen, d \in SeqsUpTo(MaxInput) :
          RopeInsert(o, d) =>
            /\ NoEmptyChild(rope')
            /\ Size(rope') = 0 => rope' = EmptyLeaf
     /\ \A o \in 0..MaxRopeLen, k \in 0..MaxRopeLen :
          RopeRemove(o, k) =>
            /\ NoEmptyChild(rope')
            /\ Size(rope') = 0 => rope' = EmptyLeaf
            /\ (~rope.leaf /\ o = 0 /\ rope.index <= k /\ k < Size(rope)) =>
                 rope' = NodeRemoveRange(rope.r, 0, k - rope.index).node
            /\ (~rope.leaf /\ 0 < o /\ o <= rope.index /\ o + k = Size(rope)) =>
                 rope' = NodeRemoveRange(rope.l, o, rope.index).node]_vars

\* The rope has been emptied by a remove that crossed split points at two
\* depths.
C29_Witness == crossed >= 2 /\ rope = EmptyLeaf

\* Node::flatten reaches its panic arm: after the children were flattened one
\* of them is not a leaf.
RECURSIVE FlattenPanics(_)
FlattenPanics(n) ==
  IF n.leaf THEN FALSE
  ELSE \/ FlattenPanics(n.l) \/ FlattenPanics(n.r)
       \/ ~NodeFlatten(n.l).leaf \/ ~NodeFlatten(n.r).leaf

\* C30: flatten() of a rope reached by inserts and removes does not panic,
\* leaves the root a single leaf, leaves collect(0, len()) and len()
\* unchanged, and a second flatten() changes nothing.
C30_Flatten ==
  [][RopeFlatten =>
       /\ ~FlattenPanics(rope)
       /\ rope'.leaf
       /\ Size(rope') = Size(rope)
       /\ Collect(rope', 0, Size(rope')) = Collect(rope, 0, Size(rope))
       /\ Collect(rope', 0, Size(rope')) = [ok |-> TRUE, bytes |-> refSeq]
       /\ NodeFlatten(rope') = rope']_vars

\* After removes that crossed a split point the rope is one leaf of at least
\* three bytes whose first and last bytes differ.
C30_Witness ==
  /\ rope.leaf /\ Len(rope.data) >= 3
  /\ rope.data[1] # rope.data[Len(rope.data)]
  /\ crossed >= 1

\* C31: when sessions open the same path that the table does not hold at the
\* same time, the file is loaded once and one entry is made: no two loads of
\* one path are under way together, the insert that ends a load finds no
\* entry to replace, and every session that has a file open and is not in the
\* middle of closing it is a client of the table's entry for that path.
C31_LoadOnce ==
  [][/\ \A s \in Sessions :
          (pc[s] = "open_ins" /\ pc'[s] # "open_ins") => cur[s].p \notin DOMAIN files
     /\ \A s, t \in Sessions :
          (s # t /\ pc'[s] = "open_ins" /\ pc'[t] = "open_ins") => cur'[s].p # cur'[t].p
     /\ \A s \in Sessions :
          (opened_file'[s] # None /\ pc'[s] # "evict") =>
            /\ opened_file'[s] \in DOMAIN files'
            /\ s \in DOMAIN files'[opened_file'[s]].clients]_vars

\* One session is loading "a", which the table does not hold, while another
\* has closed its file on the way to opening "a" and a third has "b" open.
C31_Witness ==
  \E s, t, u \in Sessions :
    /\ pc[s] = "open_ins" /\ cur[s].p = "a" /\ "a" \notin DOMAIN files
    /\ pc[t] = "open" /\ cur[t].p = "a"
    /\ opened_file[u] = "b"

\* C32: the cursor lookup, the rope edit and the cursor shift of
\* write_at_cursor and remove_at_cursor are one atomic step for every other
\* mutation of the file: while a session is between its lookup and its rope
\* edit neither the file's rope nor its cursors change, and no GetCursorsResp
\* is written for that file.
C32_CursorEditAtomic ==
  [][\A s \in Sessions :
       (pc[s] = "cur_w" /\ pc'[s] = "cur_w") =>
         /\ files'[opened_file[s]].rope = files[opened_file[s]].rope
         /\ files'[opened_file[s]].clients = files[opened_file[s]].clients
         /\ \A t \in Sessions :
              (opened_file[t] = opened_file[s] /\ Len(sink'[t]) > Len(sink[t])) =>
                Last(sink'[t]).kind # "GetCursorsResp"]_vars

\* The numbers of the edits of session s that were applied and answered.
IssuedBy(s) ==
  {sink[s][i].seq : i \in {j \in 1..Len(sink[s]) :
                             /\ sink[s][j].kind \in {"WriteResp", "RemoveResp"}
                             /\ sink[s][j].seq > 0}}

C34_UpdateAfterApply ==
  [][\A t \in Sessions :
       /\ (Len(sink'[t]) > Len(sink[t]) /\ IsUpdate(Last(sink'[t]))) =>
            Last(sink'[t]).seq \in 1..editSeq
       /\ (\/ pc[t] # "panicked" /\ pc'[t] = "panicked"
           \/ /\ Len(sink'[t]) > Len(sink[t])
              /\ Last(sink'[t]).kind \in {"WriteResp", "RemoveResp"}
              /\ Last(sink'[t]).seq = 0) =>
            \A u \in Sessions \ {t} : sink'[u] = sink[u]
       /\ (/\ pc[t] = "rope_r" /\ pc'[t] = "idle"
           /\ Last(sink'[t]).err = ""
           /\ Updates(sink[t]) # <<>>
           /\ Last(Updates(sink[t])).kind = "Add"
           /\ Last(Updates(sink[t])).seq = editSeq
           /\ cur[t].off = Last(Updates(sink[t])).off
           /\ cur[t].len = Len(Last(Updates(sink[t])).data)) =>
            Last(sink'[t]).data = Last(Updates(sink[t])).data]_vars

\* A session has received an Add and after it the Ok reply to its read of the
\* range of that Add, with the bytes of the Add; another session's edit has
\* panicked.
C34_Witness ==
  \E t, u \in Sessions :
    /\ pc[u] = "panicked"
    /\ \E i, j \in 1..Len(sink[t]) :
         /\ i < j
         /\ sink[t][i].kind = "Add"
         /\ sink[t][j].kind = "ReadResp" /\ sink[t][j].err = ""
         /\ sink[t][j].off = sink[t][i].off
         /\ sink[t][j].data = sink[t][i].data

\* C35: dispatch is total: a worker that has taken a request never ends
\* without answering it, and when it is back at its stream it has written
\* exactly one message to its own sink, the response of the request's kind;
\* a worker ends only at the end of its stream or after the Invalid reply.
C35_DispatchTotal ==
  [][\A s \in Sessions :
       /\ pc'[s] = "panicked" => pc[s] = "panicked"
       /\ (pc'[s] = "idle" /\ (Requests(s) \/ pc[s] \notin {"idle", "new"})) =>
            /\ Len(sink'[s]) = Len(sink[s]) + 1
            /\ Last(sink'[s]).kind # "Invalid"
            /\ ~IsUpdate(Last(sink'[s]))
            /\ pc[s] # "idle" => Last(sink'[s]).kind = RespKind(cur[s].kind)
       /\ (pc[s] = "idle" /\ pc'[s] = "done") =>
            \/ sink'[s] = sink[s]
            \/ Last(sink'[s]).kind = "Invalid"]_vars

\* The locks that requests on every file and the start of a worker need: the
\* table's and the outbound map's.
AwaitsGlobal(s) ==
  /\ pc[s] = "locks"
  /\ Head(prog[s]).op = "acq"
  /\ Head(prog[s]).lock \in {TableLock, OutLock}

\* Session s neither has open nor is opening the file of a broadcast that is
\* blocked in a recipient's sink.
Apart(s) ==
  \A t \in Sessions :
    Stuck(t) => opened_file[s] # opened_file[t] /\ cur[s].p # opened_file[t]

\* C40: a broadcast that stays blocked in one recipient's sink does not stop
\* the others: under fair scheduling a worker apart from the broadcast's file
\* that has come to take the table's lock (an open, close, read or write on
\* another file) or the outbound map's lock (the attach of a new session, a
\* reply) gets it.
C40_OthersComplete ==
  \A s \in Sessions :
    (AwaitsGlobal(s) /\ Apart(s)) ~> (~AwaitsGlobal(s) \/ ~Apart(s))

\* Session s is inside the sink of session t: it holds the sink's mutex, the
\* socket write under way or blocked.
InsideSink(s, t) == s \in Holders(SinkLock(t), "w")

\* C36: at most one writer is inside a given session's sink at a time, and a
\* writer inside (or blocked in) one sink does not keep another session from
\* writing to a different sink: a worker that has come to take the outbound
\* map's read lock on its way to another sink is not parked behind a writer of
\* the map that waits for the one inside to leave.
C36_SinkWriters ==
  /\ \A t \in Sessions : Cardinality(Holders(SinkLock(t), "w")) <= 1
  /\ \A s \in Sessions, t \in Sessions, u \in Sessions :
       ( /\ u # s
         /\ InsideSink(s, t)
         /\ pc[u] = "locks"
         /\ Len(prog[u]) >= 2
         /\ Head(prog[u]) = Acq(OutLock, "r")
         /\ prog[u][2].lock # SinkLock(t) )
       => ~Overtakes(u)

\* Session s is in no file's cursor map of the table f.
InNoMap(s, f) == \A p \in DOMAIN f : s \notin DOMAIN f[p].clients

\* C37: an OpenReq that fails on its path (outside home, missing) has already
\* detached the session from the file it had open: when file_close has
\* returned inside file_open the session has no open file, it is in no
\* cursor map, and the old file has left the table if nobody else was in its
\* map; the failing open then changes nothing of that and replies the error.
C37_FailedOpenDetached ==
  [][\A s \in Sessions :
       /\ (pc[s] = "evict" /\ pc'[s] = "open") =>
            /\ opened_file'[s] = None
            /\ InNoMap(s, files')
            /\ ( /\ opened_file[s] \in DOMAIN files
                 /\ DOMAIN files[opened_file[s]].clients = {} ) =>
                 opened_file[s] \notin DOMAIN files'
       /\ (pc[s] = "open" /\ pc'[s] = "open") =>
            opened_file'[s] = None /\ InNoMap(s, files')
       /\ ( /\ pc[s] = "open" /\ pc'[s] = "idle"
            /\ Last(sink'[s]).err \in {E_IO, E_PATH} ) =>
            /\ opened_file'[s] = None
            /\ InNoMap(s, files')
            /\ files' = files]_vars

\* Session 1, which had "a" open alone, has received the error reply of an
\* OpenReq on a path outside home as the first reply after its open of "a":
\* it has no file open and "a" is gone from the table.
C37_Witness ==
  /\ pc[1] = "idle"
  /\ Len(sink[1]) = 2
  /\ sink[1][2].kind = "OpenResp" /\ sink[1][2].err = E_PATH
  /\ opened_file[1] = None
  /\ "a" \notin DOMAIN files

\* The running sessions other than s that have path p open, a close of it
\* under way included, and those of them that are in its cursor map.
OthersOn(s, p) == {t \in Sessions \ {s} : Live(t) /\ opened_file[t] = p}
OthersIn(s, p) ==
  {t \in OthersOn(s, p) : p \in DOMAIN files /\ t \in DOMAIN files[p].clients}

\* C38: unsaved edits go when the last session detaches: an open that
\* succeeds puts the session's cursor at 0; when no other session has the
\* path open the rope holds the bytes on disk at that moment, and when another
\* is attached to it the rope is the shared one, unchanged, as are the other
\* cursors.
C38_OpenContent ==
  [][\A s \in Sessions, p \in HomePaths :
       (opened_file[s] = None /\ opened_file'[s] = p) =>
         /\ files'[p].clients[s] = 0
         /\ OthersOn(s, p) = {} => Content(files'[p].rope) = disk[p]
         /\ OthersIn(s, p) # {} =>
              /\ files'[p].rope = files[p].rope
              /\ \A t \in DOMAIN files[p].clients \ {s} :
                   files'[p].clients[t] = files[p].clients[t]]_vars

\* C39: every session that is in some file's cursor map has its sink in the
\* outbound table, so a broadcast never targets a missing sink.
C39_ClientsHaveSinks ==
  \A p \in DOMAIN files : DOMAIN files[p].clients \subseteq shared_out
====
